---- MODULE Spec2Model ----
(***************************************************************************)
(* Model of djinn's Redis-mediated compute core (src/src/compute.rs):     *)
(* the Manager's step loop, the Workers' command loop, the Updates buffer  *)
(* and the Population view, over one Redis store.                          *)
(*                                                                         *)
(* Store values are modelled by the values they encode (msgpack encode /   *)
(* decode are not the subject of any property here); a missing key reads   *)
(* as Nil, and decoding Nil is the panic of `decode(data).unwrap()`.       *)
(***************************************************************************)
EXTENDS Integers, Sequences, FiniteSets, TLC

\* ---------------------------------------------------------------- bounds
MaxWorkers == 2      \* n_workers handed to run() ranges over 1..MaxWorkers
MaxSteps   == 3      \* n_steps handed to run() ranges over 0..MaxSteps
MaxSpawn   == 1      \* agents spawned through Manager::spawn before run()
\* the same three bounds of the smaller specification SpecSmall
SmallWorkers == 1
SmallSteps   == 2
SmallSpawn   == 1
MaxInterval  == 2    \* reporters are registered with an interval in 1..MaxInterval
MaxUnknown   == 1    \* unrecognized commands published on the channel
UnknownSteps == 2    \* n_steps of the runs that receive unrecognized commands
MaxIds       == 3    \* ids handed to the index calls range over 1..MaxIds
MaxDirty     == 1    \* ids and worlds left in the store before Manager::new
MaxActor     == 0    \* every router is built with the actors 0..MaxActor
MaxTell      == 1    \* messages delivered to inboxes in all
MaxPush      == 2    \* entries a client pushes on a worker's spawn and kill lists
SoloSteps    == 2    \* n_steps of the one-worker runs given lists or several spawned states
MaxBatch     == 2    \* states handed to Manager::spawn, in one call and in all
MaxMsgs      == 4    \* messages sent to the dispatcher's actor
MaxThreads   == 2    \* n_threads handed to dispatcher() ranges over 1..MaxThreads
MaxN         == 3    \* WHasher::new(n) for n in 1..MaxN
PrefixBits   == 2    \* leading bits of a hash that range over all values
SuffixBits   == 2    \* trailing bits of a hash that range over all values

\* ------------------------------------------------------ program constants
THROUGHPUT == 500
\* the width of the id's hash (u64) and the precision of an f64
HashBits == 64
Mantissa == 53
\* the dispatcher's THROUGHPUT: the messages of one activation at most
DispatcherThroughput == 100
\* the digits of the exact arithmetic the claims about WHasher are stated in
LimbBits == 16

Nil == "nil"

WorkerIds == 1..MaxWorkers

\* The simulations (user code) the engine is run with:
\*   counter : decide queues Add(10) for the agent itself; update adds
\*   spawner : decide calls updates.spawn(child) once
\*   killer  : decide calls updates.kill(agent)
\*   pair    : decide queues Add(1) and then Add(2) for the agent itself;
\*             world_decide calls queue_world(Add(1)); world_update adds
SimKinds == {"counter", "spawner", "killer", "pair"}
\*   still   : decide queues Add(0) for the agent itself: its update gives
\*             the state the agent already has
Still == "still"

\* the reporter closures handed to register_reporter
ReporterNames == {"r1", "r2"}

VARIABLES
    \* ---- store, population connection
    population,     \* POPULATION_KEY   : set of ids
    to_decide,      \* TO_DECIDE_KEY    : set of ids
    to_update,      \* TO_UPDATE_KEY    : set of ids
    pop_updates,    \* POP_UPDATES_KEY  : set of encoded PopulationUpdate
    agentKey,       \* key <id>         : function id -> state (absent = no key)
    updKey,         \* key updates:<id> : function id -> list (absent = no key)
    \* ---- store, manager connection
    current_phase,  \* key current_phase, with the number of the publication it names
    workers,        \* set "workers"
    finished,       \* set "finished"
    chan,           \* pub/sub channel "command": per subscriber, undelivered messages
    subscribed,     \* which workers have subscribed
    \* ---- manager
    sim,            \* the Simulation value
    mpc,            \* position of Manager::run
    steps,          \* local `steps`
    n_steps,        \* argument of run
    n_workers,      \* argument of run / run_workers
    mTodo,          \* Population::update locals: [kill, spawn]
    \* ---- workers
    wpc,            \* position of Worker::start / process_cmd
    cur,            \* command being processed
    ids,            \* result of the last SPOP
    batch,          \* agents fetched by get_agents, not yet processed
    buf,            \* decide's `queued_updates` : Updates
    fetched,        \* update's current agent and its `updates_data`
    to_change,      \* update's `to_change`
    \* ---- history
    nextId,         \* ids handed out so far by Uuid::new_v4 (fresh each time)
    published,      \* every command published so far, in order
    lateJoin,       \* a command was published while a worker was still starting up
    calls,          \* <<"decide"|"update", id, n>>: Simulation calls made under publication n
    dupCalls,       \* the calls made more than once
    startState,     \* the agents' states when the current step began
    lastPopUpdate,  \* what the last Population::update read and whom it killed
    \* ---- store: the world
    world,          \* key world
    updWorld,       \* key updates:world : list
    \* ---- worker-local population
    spawnKey,       \* key spawn:<worker uuid> : list of agents
    killKey,        \* key kill:<worker uuid>  : list of ids
    local,          \* Worker.local : the agents a worker holds
    \* ---- reporters
    reporters,      \* Manager.reporters : HashMap interval -> reporter
    registered,     \* history: every <<reporter, interval>> handed to register_reporter
    reported,       \* history: <<reporter, step>> -> number of invocations
    handed,         \* history: the vector last handed to Simulation::update
    hooks,          \* history: the on_deaths / on_spawns invocations, in order
    taken,          \* history, per worker: `phase`, the publication it executed through
                    \* its initial read (0 once a later one came off the channel), and
                    \* `again`, whether the command in process is that publication,
                    \* and `acked`, the publication it acknowledged last
    \* ---- store: the indices
    idx,            \* keys idx:<index> : function index -> set of ids
    idxOp,          \* history: the last call on an index and the indices before it
    ctor,           \* Manager::new : the world it is given, and (history) the store it found
    spawned,        \* history: <<id returned, state given>> of Manager::spawn, in order
    \* ---- dispatcher
    disp,           \* the dispatcher thread, its actor's inbox and its thread pool
    \* ---- WHasher
    hashIn,         \* [n, h] : the worker count and the id's 64-bit hash (bits, MSB first)
    hashOut,        \* what WHasher::hash returned (NoIndex before the call)
    \* ---- routers
    rActors,        \* Router.actors, per router (named by its address): the ids it looks up
    inbox,          \* Actor.inbox : <<address, id>> -> list of messages
    listening,      \* the addresses whose serve thread has bound its listener
    rcall           \* history: the last tell / ask, what it returned, the inboxes before it

storeVars == <<population, to_decide, to_update, pop_updates, agentKey, updKey>>
ctlVars   == <<current_phase, workers, finished, chan, subscribed>>
mgrVars   == <<sim, mpc, steps, n_steps, n_workers, mTodo>>
wrkVars   == <<wpc, cur, ids, batch, buf, fetched, to_change>>
histVars  == <<published, lateJoin, calls, dupCalls, startState, lastPopUpdate>>
worldVars == <<world, updWorld>>
syncVars  == <<spawnKey, killKey, local>>
repVars   == <<reporters, registered, reported>>
hashVars  == <<hashIn, hashOut>>
routerVars == <<rActors, inbox, listening, rcall>>
libVars   == <<idx, idxOp, ctor, spawned, disp, hashVars, routerVars>>
auxVars   == <<worldVars, syncVars, repVars, handed, hooks, taken, libVars>>
vars      == <<storeVars, ctlVars, mgrVars, wrkVars, nextId, histVars, auxVars>>

\* ---------------------------------------------------------------- helpers
Min(S) == CHOOSE x \in S : \A y \in S : x <= y

RECURSIVE SortedSeq(_)
\* the elements of a finite set of numbers, ascending
SortedSeq(S) == IF S = {} THEN <<>> ELSE <<Min(S)>> \o SortedSeq(S \ {Min(S)})

RECURSIVE Reverse(_)
Reverse(s) == IF s = <<>> THEN <<>> ELSE Reverse(Tail(s)) \o <<Head(s)>>

RECURSIVE SumSeq(_)
SumSeq(s) == IF s = <<>> THEN 0 ELSE Head(s) + SumSeq(Tail(s))

Range(s) == {s[i] : i \in DOMAIN s}

\* Redis LPUSH key v1 .. vn : each value is inserted at the head in turn
LPush(list, vals) == Reverse(vals) \o list

\* Redis SPOP key count : removes and returns up to count members
SPopChoices(S, count) ==
    IF Cardinality(S) <= count THEN {S}
    ELSE {T \in SUBSET S : Cardinality(T) = count}

\* a function with key k set to v (SET / key creation)
SetKey(f, k, v) == [x \in DOMAIN f \cup {k} |-> IF x = k THEN v ELSE f[x]]
\* DEL of a set of keys
DelKeys(f, K) == [x \in DOMAIN f \ K |-> f[x]]
\* EXISTS
Has(f, k) == k \in DOMAIN f

\* LRANGE key 0 -1 (a missing key is the empty list)
LRange(f, k) == IF k \in DOMAIN f THEN f[k] ELSE <<>>

EmptyFn == [x \in {} |-> 0]

\* Population::get_agent over the stored states `keys`: GET <id>, then
\* Some(Agent {id, state: decode(data).unwrap()}). A missing key reads as
\* empty data, decode fails and the unwrap panics: the call never returns None.
get_agent(keys, id) ==
    IF Has(keys, id)
    THEN [panic |-> FALSE, agent |-> [id |-> id, state |-> keys[id]]]
    ELSE [panic |-> TRUE, agent |-> [id |-> id, state |-> 0]]

\* ------------------------------------------------------------ WHasher
\* Numbers are sequences of bits, most significant first. A value of [0, 2)
\* with HashBits fractional bits is such a sequence of length HashBits + 1;
\* read as an integer the same sequence is that value times 2^HashBits.
Zeros(n) == [i \in 1..n |-> 0]
Ones(n) == [i \in 1..n |-> 1]

\* the first position holding a 1 (0 when there is none)
Leading(b) == IF \E i \in DOMAIN b : b[i] = 1
              THEN Min({i \in DOMAIN b : b[i] = 1}) ELSE 0

RECURSIVE Inc(_)
\* b + 1, in the same number of bits
Inc(b) ==
    IF b = <<>> THEN <<>>
    ELSE IF b[Len(b)] = 0 THEN SubSeq(b, 1, Len(b) - 1) \o <<1>>
    ELSE Inc(SubSeq(b, 1, Len(b) - 1)) \o <<0>>

\* the f64 nearest to the number b (ties to even): its Mantissa leading bits
\* are kept; `sticky` says that the number has further non-zero bits below b
RoundF64(b, sticky) ==
    LET k    == Leading(b)
        last == k + Mantissa - 1
    IN  IF k = 0 \/ last >= Len(b) THEN b
        ELSE LET keep == SubSeq(b, 1, last)
                 rest == sticky \/ \E i \in (last + 2)..Len(b) : b[i] = 1
                 up   == b[last + 1] = 1 /\ (rest \/ b[last] = 1)
             IN  (IF up THEN Inc(keep) ELSE keep) \o Zeros(Len(b) - last)

\* a <= b for two numbers of the same length
Leq(a, b) ==
    LET D == {i \in DOMAIN a : a[i] # b[i]}
    IN  D = {} \/ a[Min(D)] < b[Min(D)]

RECURSIVE Frac(_, _, _)
\* the first k bits after the binary point of r / n, for 0 <= r < n
Frac(r, n, k) ==
    IF k = 0 THEN <<>>
    ELSE IF 2 * r >= n THEN <<1>> \o Frac(2 * r - n, n, k - 1)
    ELSE <<0>> \o Frac(2 * r, n, k - 1)

RECURSIVE FracRem(_, _, _)
\* the remainder left after those k bits
FracRem(r, n, k) ==
    IF k = 0 THEN r
    ELSE FracRem(IF 2 * r >= n THEN 2 * r - n ELSE 2 * r, n, k - 1)

\* (j as f64) / w for 0 <= j <= n : the f64 quotient (j and n are exact in f64)
Quot(j, n) ==
    IF j = n THEN <<1>> \o Zeros(HashBits)
    ELSE RoundF64(<<0>> \o Frac(j, n, HashBits), FracRem(j, n, HashBits) # 0)

\* u64::max_value() as f64 : 2^64 - 1 is not an f64, the conversion rounds
U64MaxAsF64 == RoundF64(<<0>> \o Ones(HashBits), FALSE)

\* (h as f64) / (u64::max_value() as f64), line 24: the conversion of h
\* rounds; the divisor is 2^HashBits, so the quotient is exact and has the
\* bits of the converted h
HashFraction(h) ==
    IF U64MaxAsF64 = <<1>> \o Zeros(HashBits)
    THEN RoundF64(<<0>> \o h, FALSE)
    ELSE Zeros(HashBits + 1)

\* WHasher::hash, lines 22-30, on the id's hash h
WHasher_hash(n, h) ==
    LET p == HashFraction(h)
        J == {j \in 0..(n - 1) : Leq(Quot(j, n), p) /\ ~Leq(Quot(j + 1, n), p)}
    IN  IF J # {} THEN Min(J) ELSE n - 1

\* hashOut before the call
NoIndex == -1

\* the hashes drawn: PrefixBits leading bits and SuffixBits trailing bits of
\* every kind, around a filling of one of four kinds
Fill(kind, n) ==
    [i \in 1..n |-> CASE kind = "zeros" -> 0
                      [] kind = "ones"  -> 1
                      [] kind = "alt01" -> (i + 1) % 2
                      [] kind = "alt10" -> i % 2]

HashInputs ==
    {pre \o Fill(kind, HashBits - PrefixBits - SuffixBits) \o suf :
        pre \in [1..PrefixBits -> {0, 1}],
        kind \in {"zeros", "ones", "alt01", "alt10"},
        suf \in [1..SuffixBits -> {0, 1}]}

\* ------------------------------------------------------------ indices
\* SMEMBERS idx:<index> (a missing key is the empty set)
Members(ix, name) == IF Has(ix, name) THEN ix[name] ELSE {}

\* SADD idx:<index> ids
SAdd(ix, name, xs) == SetKey(ix, name, Members(ix, name) \cup xs)

\* SREM idx:<index> ids (a set left empty is a key removed)
SRem(ix, name, xs) ==
    IF Members(ix, name) \ xs = {} THEN DelKeys(ix, {name})
    ELSE SetKey(ix, name, Members(ix, name) \ xs)

\* Population::count_index : SCARD
count_index(ix, name) == Cardinality(Members(ix, name))

\* an index call that removes the id when the index already holds it
index_Toggle(ix, name, id) ==
    IF id \in Members(ix, name) THEN SRem(ix, name, {id}) ELSE SAdd(ix, name, {id})

\* Population::index
index(ix, name, id) == SAdd(ix, name, {id})

\* Population::indexes
indexes(ix, name, xs) == IF Cardinality(xs) > 0 THEN SAdd(ix, name, xs) ELSE ix

\* Population::unindex
unindex(ix, name, id) == SRem(ix, name, {id})

\* Population::unindexes
unindexes(ix, name, xs) == IF Cardinality(xs) > 0 THEN SRem(ix, name, xs) ELSE ix

\* the index names and ids the calls are made with
IndexNames == {"a", "b"}
IndexIds == 1..MaxIds

NoIdxOp == [op |-> "none", index |-> "none", ids |-> {}, before |-> EmptyFn]

\* ------------------------------------------------------------- routers
\* socket addresses: the ones the routers of tests/router.rs are built on,
\* and the local addresses the system gives to outgoing connections
SocketAddr(port) == [host |-> "127.0.0.1", port |-> port]
RouterAddrs == {SocketAddr(8083), SocketAddr(8084)}
ClientAddrs == {SocketAddr(49152)}

\* ActorPath
NoPath == [kind |-> "none", addr |-> SocketAddr(0), id |-> 0]
Local(id) == [kind |-> "Local", addr |-> SocketAddr(0), id |-> id]
Remote(addr, id) == [kind |-> "Remote", addr |-> addr, id |-> id]

\* ExampleMessage
NoMsg == [tag |-> "none", x |-> 0, y |-> 0, z |-> 0]
Foo(x, y) == [tag |-> "Foo", x |-> x, y |-> y, z |-> 0]
Bar(z) == [tag |-> "Bar", x |-> 0, y |-> 0, z |-> z]
Messages == {Bar(10), Foo(3, 4)}

\* ExampleActor::handle_msg (the fields are u8)
handle_msg(m) ==
    IF m.tag = "Foo" THEN Foo((m.x * 2) % 256, (m.y + 1) % 256)
    ELSE Bar((m.z + 10) % 256)

\* RoutingMessage
RM_Ok == [kind |-> "Ok", text |-> <<>>, sender |-> NoPath, recipient |-> 0,
          message |-> NoMsg]
RM_Err(text) == [kind |-> "Err", text |-> text, sender |-> NoPath, recipient |-> 0,
                 message |-> NoMsg]
RM_Tell(sender, recipient, m) ==
    [kind |-> "Tell", text |-> <<>>, sender |-> sender, recipient |-> recipient,
     message |-> m]
RM_Ask(sender, recipient, m) ==
    [kind |-> "Ask", text |-> <<>>, sender |-> sender, recipient |-> recipient,
     message |-> m]
RM_Response(sender, recipient, m) ==
    [kind |-> "Response", text |-> <<>>, sender |-> sender, recipient |-> recipient,
     message |-> m]

\* the wire form: RemoteAddr is written as the address's text and parsed
\* back, an enum as its variant's number followed by its fields
to_string(addr) == <<addr.host, ToString(addr.port)>>
parse(text) ==
    [host |-> text[1],
     port |-> CHOOSE n \in {a.port : a \in RouterAddrs \cup ClientAddrs} :
                  ToString(n) = text[2]]

EncodePath(path) ==
    IF path.kind = "Local" THEN <<0, path.id>>
    ELSE <<1, to_string(path.addr), path.id>>
DecodePath(w) == IF w[1] = 0 THEN Local(w[2]) ELSE Remote(parse(w[2]), w[3])

EncodeMsg(m) == IF m.tag = "Foo" THEN <<0, m.x, m.y>> ELSE <<1, m.z>>
DecodeMsg(w) == IF w[1] = 0 THEN Foo(w[2], w[3]) ELSE Bar(w[2])

Variant(rm) ==
    CASE rm.kind = "Ok" -> 0 [] rm.kind = "Err" -> 1 [] rm.kind = "Tell" -> 2
      [] rm.kind = "Ask" -> 3 [] rm.kind = "Response" -> 4

\* protocol.rs encode
Encode(rm) ==
    CASE rm.kind = "Ok"  -> <<0>>
      [] rm.kind = "Err" -> <<1, rm.text>>
      [] OTHER -> <<Variant(rm), EncodePath(rm.sender), rm.recipient,
                    EncodeMsg(rm.message)>>

\* protocol.rs decode
Decode(w) ==
    CASE w[1] = 0 -> RM_Ok
      [] w[1] = 1 -> RM_Err(w[2])
      [] w[1] = 2 -> RM_Tell(DecodePath(w[2]), w[3], DecodeMsg(w[4]))
      [] w[1] = 3 -> RM_Ask(DecodePath(w[2]), w[3], DecodeMsg(w[4]))
      [] w[1] = 4 -> RM_Response(DecodePath(w[2]), w[3], DecodeMsg(w[4]))

\* what a step of a router leaves: the value returned, the inboxes, and the
\* handle_msg calls it made
Outcome(ret, inb, handled) == [ret |-> ret, inbox |-> inb, handled |-> handled]

\* a push that stores the message twice
Deliver_Twice(inb, key, m) == [inb EXCEPT ![key] = Append(Append(@, m), m)]

\* inbox.push(message) on the actor `key`
Deliver(inb, key, m) == [inb EXCEPT ![key] = Append(@, m)]

\* the id of a sender's path (router.rs lines 105-108 and 190-193)
PathId(path) == path.id

\* the closure of Router::serve on the router listening on `a`, for a
\* request read from a connection whose other end is `peer`: inside the
\* closure `addr` is the name for_each gives to that other end (line 74)
Serve(inb, a, peer, req) ==
    CASE req.kind = "Tell" ->
            IF req.recipient \in rActors[a]
            THEN Outcome(RM_Ok, Deliver(inb, <<a, req.recipient>>, req.message), <<>>)
            ELSE Outcome(RM_Err(<<"No actor with id ", ToString(req.recipient)>>),
                         inb, <<>>)
      [] req.kind = "Ask" ->
            IF req.recipient \in rActors[a]
            THEN Outcome(RM_Response(Remote(peer, req.recipient), PathId(req.sender),
                                     handle_msg(req.message)),
                         inb, <<[at |-> a, id |-> req.recipient]>>)
            ELSE Outcome(RM_Ok, inb, <<>>)
      [] OTHER -> Outcome(RM_Ok, inb, <<>>)

\* Router::send_msg: connect to addr, send the message, wait for the answer
send_msg(inb, peer, addr, msg) ==
    IF addr \in listening
    THEN LET out == Serve(inb, addr, peer, Decode(Encode(msg)))
         IN  Outcome(Decode(Encode(out.ret)), out.inbox, out.handled)
    ELSE Outcome(RM_Err(<<"Error sending message">>), inb, <<>>)

\* a tell that answers Ok when there is no such actor
tell_local_Ok(inb, r, id, m) ==
    IF id \in rActors[r] THEN Outcome(RM_Ok, Deliver(inb, <<r, id>>, m), <<>>)
    ELSE Outcome(RM_Ok, inb, <<>>)

\* Router::tell, the arm ActorPath::Local
tell_local(inb, r, id, m) ==
    IF id \in rActors[r] THEN Outcome(RM_Ok, Deliver(inb, <<r, id>>, m), <<>>)
    ELSE Outcome(RM_Err(<<"No actor with id">>), inb, <<>>)

\* Router::tell on the router r
tell(inb, r, m, sender, recipient, peer) ==
    IF recipient.kind = "Local" THEN tell_local(inb, r, recipient.id, m)
    ELSE send_msg(inb, peer, recipient.addr, RM_Tell(sender, recipient.id, m))

\* an ask that answers with the message it was given
ask_local_Echo(inb, r, id, m, sender) ==
    IF id \in rActors[r]
    THEN Outcome(RM_Response(Local(id), PathId(sender), m), inb,
                 <<[at |-> r, id |-> id]>>)
    ELSE Outcome(RM_Err(<<"No actor with id">>), inb, <<>>)

\* Router::ask, the arm ActorPath::Local
ask_local(inb, r, id, m, sender) ==
    IF id \in rActors[r]
    THEN Outcome(RM_Response(Local(id), PathId(sender), handle_msg(m)), inb,
                 <<[at |-> r, id |-> id]>>)
    ELSE Outcome(RM_Err(<<"No actor with id">>), inb, <<>>)

\* Router::ask on the router r
ask(inb, r, m, sender, recipient, peer) ==
    IF recipient.kind = "Local" THEN ask_local(inb, r, recipient.id, m, sender)
    ELSE send_msg(inb, peer, recipient.addr, RM_Ask(sender, recipient.id, m))

\* the actors each router is built with, and the ids paths are made of
ActorIds == 0..MaxActor
PathIds == 0..(MaxActor + 1)
Paths == {Local(i) : i \in PathIds} \cup {Remote(a, i) : a \in RouterAddrs, i \in PathIds}

NoCall ==
    [op |-> "none", at |-> SocketAddr(0), message |-> NoMsg, sender |-> NoPath,
     recipient |-> NoPath, ret |-> RM_Ok, before |-> EmptyFn, up |-> {},
     handled |-> <<>>]

\* how many messages the inboxes hold
Delivered(inb) ==
    Cardinality({ki \in (DOMAIN inb) \X (1..(MaxTell + 2)) : ki[2] <= Len(inb[ki[1]])})

\* --------------------------------------------------- PopulationUpdate
Spawn(id, state) == [kind |-> "Spawn", id |-> id, state |-> state]
Kill(id, state)  == [kind |-> "Kill",  id |-> id, state |-> state]

\* ------------------------------------------------------------ Updates
\* Updates::new ; `stage` is the position inside Updates::push
NewUpdates ==
    [updates |-> EmptyFn, pop_updates |-> <<>>, to_update |-> {}, stage |-> "updates"]

\* Updates::queue
queue(u, id, update) ==
    [u EXCEPT !.updates   = SetKey(@, id, Append(LRange(@, id), update)),
              !.to_update = @ \cup {id}]

\* the key "updates:world" in the buffer's map (agent ids start at 1)
WorldKey == 0

\* Updates::queue_world
queue_world(u, update) ==
    [u EXCEPT !.updates = SetKey(@, WorldKey, Append(LRange(@, WorldKey), update))]

\* a spawn that queues the agent with the state 0 whatever state it is given
spawn_Default(u, id, state) == [u EXCEPT !.pop_updates = Append(@, Spawn(id, 0))]

\* Updates::spawn, with the id Uuid::new_v4 returned
spawn(u, id, state) == [u EXCEPT !.pop_updates = Append(@, Spawn(id, state))]

\* Updates::kill
kill(u, agent) == [u EXCEPT !.pop_updates = Append(@, Kill(agent.id, agent.state))]

\* Updates::push performs one store command per non-empty part, in this
\* order: LPUSH per key of `updates`, SADD of pop_updates, SADD of to_update.
\* PushStage moves `stage` to the next part that has a command to send.
PushStage(u) ==
    IF u.stage = "updates" /\ DOMAIN u.updates # {} THEN u
    ELSE IF u.stage \in {"updates", "pop"} /\ Len(u.pop_updates) > 0
         THEN [u EXCEPT !.stage = "pop"]
    ELSE IF u.stage \in {"updates", "pop", "to_update"} /\ u.to_update # {}
         THEN [u EXCEPT !.stage = "to_update"]
    ELSE [u EXCEPT !.stage = "done"]

\* -------------------------------------------------------- Simulation
\* Simulation::decide for one agent: what it queues in `updates`;
\* nid is the next fresh id. Returns <<updates, next fresh id>>.
SimDecide(kind, agent, u, nid) ==
    CASE kind = "counter" -> <<queue(u, agent.id, 10), nid>>
      [] kind = "pair"    -> <<queue(queue(u, agent.id, 1), agent.id, 2), nid>>
      [] kind = "spawner" -> <<spawn(u, nid, 0), nid + 1>>
      [] kind = "killer"  -> <<kill(u, agent), nid>>
      [] kind = Still     -> <<queue(u, agent.id, 0), nid>>

\* Simulation::update : the new state
SimUpdate(kind, state, updates) == state + SumSeq(updates)

\* Simulation::world_decide : what it queues in `updates`
SimWorldDecide(kind, u) == IF kind = "pair" THEN queue_world(u, 1) ELSE u

\* Simulation::world_update : the new world (the trait's default returns world)
SimWorldUpdate(kind, w, updates) == IF kind = "pair" THEN w + SumSeq(updates) ELSE w

\* the index the hooks of the population-dynamics example maintain
People == "people"

\* the simulations whose hooks maintain it, as that example does; the other
\* simulations keep the trait's default hooks, which do nothing
Indexing == {"spawner", "killer"}

\* the trait's default on_spawns
SimOnSpawns_Default(kind, ix, agents) == ix

\* Simulation::on_spawns : population.indexes("people", ids of the agents)
SimOnSpawns(kind, ix, agents) ==
    IF kind \in Indexing THEN indexes(ix, People, {p[1] : p \in agents}) ELSE ix

\* Simulation::on_deaths : population.unindexes("people", ids of the agents)
SimOnDeaths(kind, ix, agents) ==
    IF kind \in Indexing THEN unindexes(ix, People, {p[1] : p \in agents}) ELSE ix

RECURSIVE DecideAll(_, _, _, _)
\* the `for agent in agents` loop of Worker::decide
DecideAll(kind, agents, u, nid) ==
    IF agents = <<>> THEN <<u, nid>>
    ELSE LET r == SimDecide(kind, Head(agents), u, nid)
         IN  DecideAll(kind, Tail(agents), r[1], r[2])

\* ------------------------------------------------------------- Init
\* the keys Manager::new resets, as they are now
Snapshot ==
    [population |-> population, to_decide |-> to_decide, to_update |-> to_update,
     pop_updates |-> pop_updates, idx |-> idx, current_phase |-> current_phase,
     workers |-> workers, finished |-> finished, world |-> world]

NoCmd == [cmd |-> "none", n |-> 0, via |-> "none"]

NotTaken == [phase |-> 0, again |-> FALSE, acked |-> 0]

\* the state after Manager::new(addr, conn, simulation, world)
Constructed ==
    /\ population = {} /\ to_decide = {} /\ to_update = {} /\ pop_updates = {}
    /\ agentKey = EmptyFn /\ updKey = EmptyFn
    /\ current_phase = [cmd |-> "idle", n |-> 0]
    /\ workers = {} /\ finished = {}
    /\ chan = [w \in WorkerIds |-> <<>>]
    /\ subscribed = {}
    /\ sim \in SimKinds \cup {Still}
    /\ mpc = "new" /\ steps = 0 /\ n_steps = 0 /\ n_workers = 0
    /\ mTodo = [kill |-> {}, spawn |-> {}]
    /\ wpc = [w \in WorkerIds |-> "new"]
    /\ cur = [w \in WorkerIds |-> NoCmd]
    /\ ids = [w \in WorkerIds |-> {}]
    /\ batch = [w \in WorkerIds |-> {}]
    /\ buf = [w \in WorkerIds |-> NewUpdates]
    /\ fetched = [w \in WorkerIds |-> Nil]
    /\ to_change = [w \in WorkerIds |-> {}]
    /\ nextId = 1
    /\ published = <<>>
    /\ lateJoin = FALSE
    /\ calls = {} /\ dupCalls = {}
    /\ startState = EmptyFn
    /\ lastPopUpdate = [read |-> {}, killed |-> {}]
    /\ world = 0 /\ updWorld = <<>>
    /\ spawnKey = [w \in WorkerIds |-> <<>>]
    /\ killKey = [w \in WorkerIds |-> <<>>]
    /\ local = [w \in WorkerIds |-> {}]
    /\ reporters = EmptyFn /\ registered = {} /\ reported = EmptyFn
    /\ handed = <<>>
    /\ hooks = <<>>
    /\ taken = [w \in WorkerIds |-> NotTaken]
    /\ idx = EmptyFn
    /\ idxOp = NoIdxOp
    /\ ctor = [world |-> 0, found |-> Snapshot]
    /\ spawned = <<>>

\* no call of WHasher::hash is under way
HashIdle == hashIn = [n |-> 1, h |-> Zeros(HashBits)] /\ hashOut = NoIndex

\* no router has been built
RouterIdle ==
    /\ rActors = [a \in RouterAddrs |-> {}]
    /\ inbox = EmptyFn
    /\ listening = {}
    /\ rcall = NoCall

\* no dispatcher has been started
NoDisp ==
    [n_threads |-> 0, inbox |-> <<>>, jobs |-> <<>>, running |-> <<>>,
     handled |-> <<>>, sent |-> 0]

DispIdle == disp = NoDisp

Init == Constructed /\ sim \in SimKinds /\ HashIdle /\ RouterIdle /\ DispIdle

\* the same, the simulation whose updates change nothing included
InitSims == Constructed /\ HashIdle /\ RouterIdle /\ DispIdle

\* ---------------------------------------------------------- Manager
RECURSIVE SpawnAll(_, _, _)
\* Manager::spawn's `states.iter().map(|s| updates.spawn(s.clone())).collect()`:
\* the buffer after the calls and the ids they returned, in order
SpawnAll(states, u, nid) ==
    IF states = <<>> THEN [u |-> u, ids |-> <<>>]
    ELSE LET r == SpawnAll(Tail(states), spawn(u, nid, Head(states)), nid + 1)
         IN  [u |-> r.u, ids |-> <<nid>> \o r.ids]

\* Manager::spawn(states): one Updates buffer, a spawn per state, push (the
\* one SADD of the pending mutations); returns the ids
\* (at most `cap` agents are spawned this way in all)
Manager_spawns(states, cap) ==
    /\ mpc = "new"
    /\ nextId + Len(states) - 1 <= cap
    /\ LET r == SpawnAll(states, NewUpdates, nextId)
       IN  /\ pop_updates' = IF Len(r.u.pop_updates) > 0
                             THEN pop_updates \cup Range(r.u.pop_updates)
                             ELSE pop_updates
           /\ spawned' = spawned \o [i \in 1..Len(states) |-> <<r.ids[i], states[i]>>]
    /\ nextId' = nextId + Len(states)
    /\ UNCHANGED <<population, to_decide, to_update, agentKey, updKey,
                   ctlVars, mgrVars, wrkVars, histVars>>
    /\ UNCHANGED <<worldVars, syncVars, taken, repVars, handed, hooks, idx, idxOp, ctor,
                   disp, hashVars, routerVars>>

\* Manager::spawn with k states {h: 0}
Manager_spawn(k, cap) == Manager_spawns([i \in 1..k |-> 0], cap)

\* run(sim, manager, n_workers, n_steps): the manager thread and the
\* n_workers worker threads are started
Run(nw, ns) ==
    /\ mpc = "new"
    /\ mpc' = "wait_workers"
    /\ n_workers' = nw /\ n_steps' = ns
    /\ wpc' = [w \in WorkerIds |-> IF w <= nw THEN "register" ELSE "new"]
    /\ UNCHANGED <<storeVars, ctlVars, sim, steps, mTodo,
                   cur, ids, batch, buf, fetched, to_change, nextId, histVars>>
    /\ UNCHANGED auxVars

\* a worker thread that has not reached its message loop yet
StartingUp(w) == wpc[w] \in {"register", "subscribe", "read_phase"}

\* PUBLISH command <cmd>
Publish(cmd) ==
    /\ published' = Append(published, cmd)
    /\ chan' = [w \in WorkerIds |->
                  IF w \in subscribed
                  THEN Append(chan[w], [cmd |-> cmd, n |-> Len(published) + 1])
                  ELSE chan[w]]
    /\ lateJoin' = (lateJoin \/ \E w \in WorkerIds : StartingUp(w))
    /\ UNCHANGED <<calls, dupCalls, startState, lastPopUpdate>>

\* the payloads no arm of Worker::process_cmd names
UnknownCmds == {"bogus"}

\* some client of the store publishes a payload on the channel "command"
\* that process_cmd does not recognize (at most MaxUnknown times)
PublishUnknown(cmd) ==
    /\ Cardinality({i \in DOMAIN published : published[i] \in UnknownCmds}) < MaxUnknown
    /\ Publish(cmd)
    /\ UNCHANGED <<storeVars, current_phase, workers, finished, subscribed,
                   mgrVars, wrkVars, nextId>>
    /\ UNCHANGED auxVars

\* Manager::run, lines 403-408: wait for at least one worker
M_wait_workers ==
    /\ mpc = "wait_workers"
    /\ Cardinality(workers) # 0
    /\ mpc' = "loop"
    /\ UNCHANGED <<storeVars, ctlVars, sim, steps, n_steps, n_workers, mTodo,
                   wrkVars, nextId, histVars>>
    /\ UNCHANGED auxVars

\* a loop head that publishes "sync" where the code publishes "decide"
M_step_begin_SyncFirst ==
    /\ mpc = "loop"
    /\ steps < n_steps
    /\ to_decide' = population
    /\ mpc' = "pub_sync"
    /\ startState' = [a \in population \cap DOMAIN agentKey |-> agentKey[a]]
    /\ UNCHANGED <<population, to_update, pop_updates, agentKey, updKey,
                   ctlVars, sim, steps, n_steps, n_workers, mTodo,
                   wrkVars, nextId, published, lateJoin, calls, dupCalls, lastPopUpdate>>
    /\ UNCHANGED auxVars

\* Manager::register_reporter(n_steps, func): HashMap::insert under the key
\* n_steps, which replaces the reporter already held under that key
register_reporter(interval, r) ==
    /\ mpc = "new"
    /\ r \notin {p[1] : p \in registered}
    /\ reporters' = SetKey(reporters, interval, r)
    /\ registered' = registered \cup {<<r, interval>>}
    /\ UNCHANGED <<storeVars, ctlVars, mgrVars, wrkVars, nextId, histVars>>
    /\ UNCHANGED <<worldVars, syncVars, taken, reported, handed, hooks, libVars>>

\* lines 414-418: every reporter of the map whose interval divides `steps`
\* is called with `steps`; `done` counts the calls per <<reporter, step>>
Invoke(reps, step, done) ==
    LET fired == {<<reps[i], step>> : i \in {j \in DOMAIN reps : step % j = 0}}
    IN  [k \in DOMAIN done \cup fired |->
            (IF k \in DOMAIN done THEN done[k] ELSE 0) + (IF k \in fired THEN 1 ELSE 0)]

\* lines 410-421: loop test, reporters, SUNIONSTORE to_decide population
M_step_begin ==
    /\ mpc = "loop"
    /\ steps < n_steps
    /\ to_decide' = population
    /\ mpc' = "pub_decide"
    /\ startState' = [a \in population \cap DOMAIN agentKey |-> agentKey[a]]
    /\ UNCHANGED <<population, to_update, pop_updates, agentKey, updKey,
                   ctlVars, sim, steps, n_steps, n_workers, mTodo,
                   wrkVars, nextId, published, lateJoin, calls, dupCalls, lastPopUpdate>>
    /\ reported' = Invoke(reporters, steps, reported)
    /\ UNCHANGED <<worldVars, syncVars, taken, reporters, registered, handed, hooks, libVars>>

\* lines 425 / 441 / 453: publish the command
M_publish(cmd) ==
    /\ mpc = "pub_" \o cmd
    /\ Publish(cmd)
    /\ mpc' = "set_" \o cmd
    /\ UNCHANGED <<storeVars, current_phase, workers, finished, subscribed,
                   sim, steps, n_steps, n_workers, mTodo, wrkVars, nextId>>
    /\ UNCHANGED auxVars

\* lines 426 / 442 / 454: SET current_phase
M_set_phase(cmd) ==
    /\ mpc = "set_" \o cmd
    /\ current_phase' = [cmd |-> cmd, n |-> Len(published)]
    /\ mpc' = "wait_" \o cmd
    /\ UNCHANGED <<storeVars, workers, finished, chan, subscribed,
                   sim, steps, n_steps, n_workers, mTodo, wrkVars, nextId, histVars>>
    /\ UNCHANGED auxVars

\* Manager::wait_until_finished after decide and after update
M_wait_finished(cmd) ==
    /\ cmd \in {"decide", "update"}
    /\ mpc = "wait_" \o cmd
    /\ Cardinality(finished) = Cardinality(workers)
    /\ mpc' = "del_" \o cmd
    /\ UNCHANGED <<storeVars, ctlVars, sim, steps, n_steps, n_workers, mTodo,
                   wrkVars, nextId, histVars>>
    /\ UNCHANGED auxVars

\* lines 428 / 444: DEL finished
M_del_finished(cmd) ==
    /\ cmd \in {"decide", "update"}
    /\ mpc = "del_" \o cmd
    /\ finished' = {}
    /\ mpc' = IF cmd = "decide" THEN "world_decide" ELSE "pop_read"
    /\ UNCHANGED <<storeVars, current_phase, workers, chan, subscribed,
                   sim, steps, n_steps, n_workers, mTodo, wrkVars, nextId, histVars>>
    /\ UNCHANGED auxVars

\* lines 432-438: world_decide into a fresh Updates, then its push. The
\* simulations here queue nothing but world updates in world_decide, so the
\* push is at most the one LPUSH of updates:world.
M_world_decide ==
    /\ mpc = "world_decide"
    /\ LET u == SimWorldDecide(sim, NewUpdates)
       IN  updWorld' = IF Has(u.updates, WorldKey)
                       THEN LPush(updWorld, u.updates[WorldKey])
                       ELSE updWorld
    /\ mpc' = "pub_update"
    /\ UNCHANGED <<storeVars, ctlVars, sim, steps, n_steps, n_workers, mTodo,
                   wrkVars, nextId, histVars>>
    /\ UNCHANGED <<world, syncVars, taken, repVars, handed, hooks, libVars>>

\* Population::update, lines 261-278: SMEMBERS of the pending mutations,
\* partitioned into to_kill and to_spawn
Population_update_read ==
    /\ mpc = "pop_read"
    /\ mTodo' = [kill  |-> {<<m.id, m.state>> : m \in {x \in pop_updates : x.kind = "Kill"}},
                 spawn |-> {<<m.id, m.state>> : m \in {x \in pop_updates : x.kind = "Spawn"}}]
    /\ mpc' = "pop_kills"
    /\ lastPopUpdate' = [read |-> pop_updates,
                         killed |-> {m.id : m \in {x \in pop_updates : x.kind = "Kill"}}]
    /\ UNCHANGED <<storeVars, ctlVars, sim, steps, n_steps, n_workers,
                   wrkVars, nextId, published, lateJoin, calls, dupCalls, startState>>
    /\ UNCHANGED auxVars

\* Population::kills, lines 239-244 : DEL the state keys, SREM from
\* population; with nothing to kill the call does nothing
Population_kills ==
    /\ mpc = "pop_kills"
    /\ LET dead == {p[1] : p \in mTodo.kill}
       IN  /\ agentKey' = DelKeys(agentKey, dead)
           /\ population' = population \ dead
    /\ mpc' = IF mTodo.kill = {} THEN "pop_spawns" ELSE "hook_deaths"
    /\ UNCHANGED <<to_decide, to_update, pop_updates, updKey, ctlVars,
                   sim, steps, n_steps, n_workers, mTodo, wrkVars, nextId, histVars>>
    /\ UNCHANGED auxVars

\* an invocation of a Simulation hook with a batch of agents
Hook(name, agents) == [hook |-> name, ids |-> {p[1] : p \in agents}]

\* Population::kills, lines 246-254 : simulation.on_deaths(agents)
on_deaths ==
    /\ mpc = "hook_deaths"
    /\ hooks' = Append(hooks, Hook("on_deaths", mTodo.kill))
    /\ idx' = SimOnDeaths(sim, idx, mTodo.kill)
    /\ mTodo' = [mTodo EXCEPT !.kill = {}]
    /\ mpc' = "pop_spawns"
    /\ UNCHANGED <<storeVars, ctlVars, sim, steps, n_steps, n_workers,
                   wrkVars, nextId, histVars>>
    /\ UNCHANGED <<worldVars, syncVars, taken, repVars, handed, idxOp, ctor, spawned, disp,
                   hashVars, routerVars>>

\* Population::spawns, lines 201-229 : SADD to population, set_agents; with
\* nothing to spawn the call does nothing
Population_spawns ==
    /\ mpc = "pop_spawns"
    /\ LET born == {p[1] : p \in mTodo.spawn}
       IN  /\ population' = population \cup born
           /\ agentKey' = [x \in DOMAIN agentKey \cup born |->
                             IF x \in born
                             THEN (CHOOSE p \in mTodo.spawn : p[1] = x)[2]
                             ELSE agentKey[x]]
    /\ mpc' = IF mTodo.spawn = {} THEN "pub_sync" ELSE "hook_spawns"
    /\ UNCHANGED <<to_decide, to_update, pop_updates, updKey, ctlVars,
                   sim, steps, n_steps, n_workers, mTodo, wrkVars, nextId, histVars>>
    /\ UNCHANGED auxVars

\* Population::spawns, lines 231-234 : simulation.on_spawns(agents)
on_spawns ==
    /\ mpc = "hook_spawns"
    /\ hooks' = Append(hooks, Hook("on_spawns", mTodo.spawn))
    /\ idx' = SimOnSpawns(sim, idx, mTodo.spawn)
    /\ mTodo' = [kill |-> {}, spawn |-> {}]
    /\ mpc' = "pub_sync"
    /\ UNCHANGED <<storeVars, ctlVars, sim, steps, n_steps, n_workers,
                   wrkVars, nextId, histVars>>
    /\ UNCHANGED <<worldVars, syncVars, taken, repVars, handed, idxOp, ctor, spawned, disp,
                   hashVars, routerVars>>

\* lines 455-457: wait_until_finished after sync, then steps += 1
M_step_end ==
    /\ mpc = "wait_sync"
    /\ Cardinality(finished) = Cardinality(workers)
    /\ steps' = steps + 1
    /\ mpc' = "loop"
    /\ UNCHANGED <<storeVars, ctlVars, sim, n_steps, n_workers, mTodo,
                   wrkVars, nextId, histVars>>
    /\ UNCHANGED auxVars

\* a loop test that is off by one: the run ends one step early
M_terminate_Early ==
    /\ mpc = "loop"
    /\ ~(steps + 1 < n_steps)
    /\ Publish("terminate")
    /\ mpc' = "done"
    /\ UNCHANGED <<storeVars, current_phase, workers, finished, subscribed,
                   sim, steps, n_steps, n_workers, mTodo, wrkVars, nextId>>
    /\ UNCHANGED auxVars

\* lines 463-464: the loop is over, publish terminate
M_terminate ==
    /\ mpc = "loop"
    /\ ~(steps < n_steps)
    /\ Publish("terminate")
    /\ mpc' = "done"
    /\ UNCHANGED <<storeVars, current_phase, workers, finished, subscribed,
                   sim, steps, n_steps, n_workers, mTodo, wrkVars, nextId>>
    /\ UNCHANGED auxVars

\* ----------------------------------------------------------- Worker
\* a match whose default arm acknowledges the command as if it were a phase
FirstStep_AckUnknown(cmd) ==
    CASE cmd = "terminate" -> "t_srem"
      [] cmd = "decide"    -> "d_spop"
      [] cmd = "update"    -> "u_spop"
      [] cmd = "sync"      -> "s_sync"
      [] OTHER             -> "ack"

\* Worker::process_cmd's match: where the command's processing starts
\* ("idle" and every unrecognized command: nothing to do, back to the loop)
FirstStep(cmd) ==
    CASE cmd = "terminate" -> "t_srem"
      [] cmd = "decide"    -> "d_spop"
      [] cmd = "update"    -> "u_spop"
      [] cmd = "sync"      -> "s_sync"
      [] OTHER             -> "listen"

\* Worker::start, line 516: SADD workers
W_register(w) ==
    /\ wpc[w] = "register"
    /\ workers' = workers \cup {w}
    /\ wpc' = [wpc EXCEPT ![w] = "subscribe"]
    /\ UNCHANGED <<storeVars, current_phase, finished, chan, subscribed, mgrVars,
                   cur, ids, batch, buf, fetched, to_change, nextId, histVars>>
    /\ UNCHANGED auxVars

\* lines 519-520: SUBSCRIBE command
W_subscribe(w) ==
    /\ wpc[w] = "subscribe"
    /\ subscribed' = subscribed \cup {w}
    /\ wpc' = [wpc EXCEPT ![w] = "read_phase"]
    /\ UNCHANGED <<storeVars, current_phase, workers, finished, chan, mgrVars,
                   cur, ids, batch, buf, fetched, to_change, nextId, histVars>>
    /\ UNCHANGED auxVars

\* lines 523-524: GET current_phase and process it
W_read_phase(w) ==
    /\ wpc[w] = "read_phase"
    /\ cur' = [cur EXCEPT ![w] = [cmd |-> current_phase.cmd, n |-> current_phase.n,
                                  via |-> "phase"]]
    /\ wpc' = [wpc EXCEPT ![w] = FirstStep(current_phase.cmd)]
    /\ taken' = [taken EXCEPT ![w].phase = current_phase.n]
    /\ UNCHANGED <<storeVars, ctlVars, mgrVars, ids, batch, buf, fetched, to_change,
                   nextId, histVars>>
    /\ UNCHANGED <<worldVars, syncVars, repVars, handed, hooks, libVars>>

\* lines 527-529: pubsub.get_message, then process the payload
W_get_message(w) ==
    /\ wpc[w] = "listen"
    /\ chan[w] # <<>>
    /\ cur' = [cur EXCEPT ![w] = [cmd |-> Head(chan[w]).cmd, n |-> Head(chan[w]).n,
                                  via |-> "channel"]]
    /\ chan' = [chan EXCEPT ![w] = Tail(chan[w])]
    /\ wpc' = [wpc EXCEPT ![w] = FirstStep(Head(chan[w]).cmd)]
    /\ taken' = [taken EXCEPT ![w] =
                    IF taken[w].phase >= 1 /\ Head(chan[w]).n = taken[w].phase
                    THEN [@ EXCEPT !.phase = 0, !.again = TRUE]
                    ELSE [@ EXCEPT !.phase = 0, !.again = FALSE]]
    /\ UNCHANGED <<storeVars, current_phase, workers, finished, subscribed, mgrVars,
                   ids, batch, buf, fetched, to_change, nextId, histVars>>
    /\ UNCHANGED <<worldVars, syncVars, repVars, handed, hooks, libVars>>

\* a terminate that leaves the worker's uuid in `workers`
W_terminate_NoSrem(w) ==
    /\ wpc[w] = "t_srem"
    /\ wpc' = [wpc EXCEPT ![w] = IF cur[w].via = "channel" THEN "exited" ELSE "listen"]
    /\ cur' = [cur EXCEPT ![w] = NoCmd]
    /\ UNCHANGED <<storeVars, ctlVars, mgrVars,
                   ids, batch, buf, fetched, to_change, nextId, histVars>>
    /\ UNCHANGED auxVars

\* process_cmd "terminate": SREM workers; the loop breaks on this payload
W_terminate(w) ==
    /\ wpc[w] = "t_srem"
    /\ workers' = workers \ {w}
    /\ wpc' = [wpc EXCEPT ![w] = IF cur[w].via = "channel" THEN "exited" ELSE "listen"]
    /\ cur' = [cur EXCEPT ![w] = NoCmd]
    /\ UNCHANGED <<storeVars, current_phase, finished, chan, subscribed, mgrVars,
                   ids, batch, buf, fetched, to_change, nextId, histVars>>
    /\ UNCHANGED auxVars

\* process_cmd: SADD finished after decide / update / sync
W_ack(w) ==
    /\ wpc[w] = "ack"
    /\ finished' = finished \cup {w}
    /\ wpc' = [wpc EXCEPT ![w] = "listen"]
    /\ taken' = [taken EXCEPT ![w].acked = cur[w].n]
    /\ cur' = [cur EXCEPT ![w] = NoCmd]
    /\ ids' = [ids EXCEPT ![w] = {}]
    /\ UNCHANGED <<storeVars, current_phase, workers, chan, subscribed, mgrVars,
                   batch, buf, fetched, to_change, nextId, histVars>>
    /\ UNCHANGED <<worldVars, syncVars, repVars, handed, hooks, libVars>>

\* a decide that pops its ids from POPULATION_KEY instead of TO_DECIDE_KEY
W_decide_spop_FromPopulation(w) ==
    /\ wpc[w] = "d_spop"
    /\ \E got \in SPopChoices(population, THROUGHPUT) :
          /\ ids' = [ids EXCEPT ![w] = got]
          /\ population' = population \ got
    /\ wpc' = [wpc EXCEPT ![w] = "d_get"]
    /\ UNCHANGED <<to_decide, to_update, pop_updates, agentKey, updKey, ctlVars,
                   mgrVars, cur, batch, buf, fetched, to_change, nextId, histVars>>
    /\ UNCHANGED auxVars

\* Worker::decide, line 594: SPOP to_decide THROUGHPUT
W_decide_spop(w) ==
    /\ wpc[w] = "d_spop"
    /\ \E got \in SPopChoices(to_decide, THROUGHPUT) :
          /\ ids' = [ids EXCEPT ![w] = got]
          /\ to_decide' = to_decide \ got
    /\ wpc' = [wpc EXCEPT ![w] = "d_get"]
    /\ UNCHANGED <<population, to_update, pop_updates, agentKey, updKey, ctlVars,
                   mgrVars, cur, batch, buf, fetched, to_change, nextId, histVars>>
    /\ UNCHANGED auxVars

\* lines 595-613: get_agents, Simulation::decide for each agent fetched,
\* loop again only after a full batch
W_decide_agents(w) ==
    /\ wpc[w] = "d_get"
    /\ IF \E i \in ids[w] : get_agent(agentKey, i).panic
       THEN \* decode(data).unwrap() panics on a missing key
            /\ wpc' = [wpc EXCEPT ![w] = "panicked"]
            /\ UNCHANGED <<buf, nextId, calls, dupCalls>>
       ELSE LET agents == [k \in 1..Cardinality(ids[w]) |->
                             get_agent(agentKey, SortedSeq(ids[w])[k]).agent]
                r  == DecideAll(sim, agents, buf[w], nextId)
                u  == IF Cardinality(ids[w]) < THROUGHPUT THEN PushStage(r[1]) ELSE r[1]
            IN  /\ buf' = [buf EXCEPT ![w] = IF u.stage = "done" THEN NewUpdates ELSE u]
                /\ nextId' = r[2]
                /\ calls' = calls \cup {<<"decide", i, cur[w].n>> : i \in ids[w]}
                /\ dupCalls' = dupCalls \cup
                                  ({<<"decide", i, cur[w].n>> : i \in ids[w]} \cap calls)
                /\ wpc' = [wpc EXCEPT ![w] =
                             IF Cardinality(ids[w]) < THROUGHPUT
                             THEN (IF u.stage = "done" THEN "ack" ELSE "d_push")
                             ELSE "d_spop"]
    /\ ids' = [ids EXCEPT ![w] = {}]
    /\ UNCHANGED <<storeVars, ctlVars, mgrVars, cur, batch, fetched, to_change,
                   published, lateJoin, startState, lastPopUpdate>>
    /\ UNCHANGED auxVars

\* Updates::push, lines 89-106: the next store command of the push
W_push(w) ==
    /\ wpc[w] = "d_push"
    /\ LET u == buf[w] IN
       \/ /\ u.stage = "updates"
          /\ \E key \in DOMAIN u.updates :
               LET v == PushStage([u EXCEPT !.updates = DelKeys(@, {key})])
               IN  /\ updKey' = SetKey(updKey, key, LPush(LRange(updKey, key), u.updates[key]))
                   /\ buf' = [buf EXCEPT ![w] = IF v.stage = "done" THEN NewUpdates ELSE v]
                   /\ wpc' = [wpc EXCEPT ![w] = IF v.stage = "done" THEN "ack" ELSE "d_push"]
          /\ UNCHANGED <<pop_updates, to_update>>
       \/ /\ u.stage = "pop"
          /\ pop_updates' = pop_updates \cup Range(u.pop_updates)
          /\ LET v == PushStage([u EXCEPT !.stage = "to_update"])
             IN  /\ buf' = [buf EXCEPT ![w] = IF v.stage = "done" THEN NewUpdates ELSE v]
                 /\ wpc' = [wpc EXCEPT ![w] = IF v.stage = "done" THEN "ack" ELSE "d_push"]
          /\ UNCHANGED <<updKey, to_update>>
       \/ /\ u.stage = "to_update"
          /\ to_update' = to_update \cup u.to_update
          /\ buf' = [buf EXCEPT ![w] = NewUpdates]
          /\ wpc' = [wpc EXCEPT ![w] = "ack"]
          /\ UNCHANGED <<updKey, pop_updates>>
    /\ UNCHANGED <<population, to_decide, agentKey, ctlVars, mgrVars,
                   cur, ids, batch, fetched, to_change, nextId, histVars>>
    /\ UNCHANGED auxVars

\* an update that acks without writing what it has in to_change
AfterAgents_NoSet(n_agents, change) ==
    IF n_agents < THROUGHPUT THEN "ack" ELSE "u_spop"

\* where Worker::update goes once the `for agent in agents` loop is over
AfterAgents(n_agents, change) ==
    IF n_agents < THROUGHPUT
    THEN (IF change # {} THEN "u_set" ELSE "ack")
    ELSE "u_spop"

\* Worker::update, line 630: SPOP to_update THROUGHPUT
W_update_spop(w) ==
    /\ wpc[w] = "u_spop"
    /\ \E got \in SPopChoices(to_update, THROUGHPUT) :
          /\ ids' = [ids EXCEPT ![w] = got]
          /\ to_update' = to_update \ got
    /\ wpc' = [wpc EXCEPT ![w] = "u_get"]
    /\ UNCHANGED <<population, to_decide, pop_updates, agentKey, updKey, ctlVars,
                   mgrVars, cur, batch, buf, fetched, to_change, nextId, histVars>>
    /\ UNCHANGED auxVars

\* line 631: get_agents(ids)
W_update_get(w) ==
    /\ wpc[w] = "u_get"
    /\ IF \E i \in ids[w] : get_agent(agentKey, i).panic
       THEN /\ wpc' = [wpc EXCEPT ![w] = "panicked"]
            /\ UNCHANGED batch
       ELSE /\ batch' = [batch EXCEPT ![w] = {get_agent(agentKey, i).agent : i \in ids[w]}]
            /\ wpc' = [wpc EXCEPT ![w] =
                         IF ids[w] = {} THEN AfterAgents(0, to_change[w]) ELSE "u_agent"]
    /\ UNCHANGED <<storeVars, ctlVars, mgrVars, cur, ids, buf, fetched, to_change,
                   nextId, histVars>>
    /\ UNCHANGED auxVars

\* lines 638-651: next agent of the batch, LRANGE updates:<id> 0 -1;
\* an agent without updates is skipped
W_update_lrange(w) ==
    /\ wpc[w] = "u_agent"
    /\ \E agent \in batch[w] :
          /\ batch' = [batch EXCEPT ![w] = batch[w] \ {agent}]
          /\ IF Len(LRange(updKey, agent.id)) = 0
             THEN /\ wpc' = [wpc EXCEPT ![w] =
                               IF batch[w] = {agent}
                               THEN AfterAgents(Cardinality(ids[w]), to_change[w])
                               ELSE "u_agent"]
                  /\ UNCHANGED fetched
             ELSE /\ fetched' = [fetched EXCEPT ![w] =
                                   [agent |-> agent, data |-> LRange(updKey, agent.id)]]
                  /\ wpc' = [wpc EXCEPT ![w] = "u_del"]
    /\ UNCHANGED <<storeVars, ctlVars, mgrVars, cur, ids, buf, to_change, nextId, histVars>>
    /\ UNCHANGED auxVars

\* lines 653-661: DEL updates:<id>, Simulation::update, keep a changed state
W_update_apply(w) ==
    /\ wpc[w] = "u_del"
    /\ LET agent     == fetched[w].agent
           new_state == SimUpdate(sim, agent.state, fetched[w].data)
           change    == IF new_state # agent.state
                        THEN to_change[w] \cup {<<agent.id, new_state>>}
                        ELSE to_change[w]
       IN  /\ updKey' = DelKeys(updKey, {agent.id})
           /\ to_change' = [to_change EXCEPT ![w] = change]
           /\ wpc' = [wpc EXCEPT ![w] =
                        IF batch[w] = {} THEN AfterAgents(Cardinality(ids[w]), change)
                        ELSE "u_agent"]
    /\ fetched' = [fetched EXCEPT ![w] = Nil]
    /\ calls' = calls \cup {<<"update", fetched[w].agent.id, cur[w].n>>}
    /\ dupCalls' = dupCalls \cup ({<<"update", fetched[w].agent.id, cur[w].n>>} \cap calls)
    /\ UNCHANGED <<population, to_decide, to_update, pop_updates, agentKey, ctlVars,
                   mgrVars, cur, ids, batch, buf, nextId,
                   published, lateJoin, startState, lastPopUpdate>>
    /\ handed' = fetched[w].data
    /\ UNCHANGED <<worldVars, syncVars, taken, repVars, hooks, libVars>>

\* lines 669-672: set_agents(to_change)
W_update_set(w) ==
    /\ wpc[w] = "u_set"
    /\ agentKey' = [x \in DOMAIN agentKey \cup {p[1] : p \in to_change[w]} |->
                      IF \E p \in to_change[w] : p[1] = x
                      THEN (CHOOSE p \in to_change[w] : p[1] = x)[2]
                      ELSE agentKey[x]]
    /\ to_change' = [to_change EXCEPT ![w] = {}]
    /\ ids' = [ids EXCEPT ![w] = {}]
    /\ wpc' = [wpc EXCEPT ![w] = "ack"]
    /\ UNCHANGED <<population, to_decide, to_update, pop_updates, updKey, ctlVars,
                   mgrVars, cur, batch, buf, fetched, nextId, histVars>>
    /\ UNCHANGED auxVars

\* a sync that takes the killed ids out of `local` before the spawned agents
\* join it
W_sync_KillFirst(w) ==
    /\ wpc[w] = "s_sync"
    /\ LET datas  == spawnKey[w]
           dead   == killKey[w]
           kept   == IF Len(dead) > 0
                     THEN {a \in local[w] : a.id \notin Range(dead)}
                     ELSE local[w]
           joined == IF Len(datas) > 0 THEN kept \cup Range(datas) ELSE kept
       IN  /\ local' = [local EXCEPT ![w] = joined]
           /\ spawnKey' = [spawnKey EXCEPT ![w] = <<>>]
           /\ killKey' = [killKey EXCEPT ![w] = <<>>]
    /\ wpc' = [wpc EXCEPT ![w] = "ack"]
    /\ UNCHANGED <<storeVars, ctlVars, mgrVars, cur, ids, batch, buf, fetched,
                   to_change, nextId, histVars>>
    /\ UNCHANGED <<worldVars, taken, repVars, handed, hooks, libVars>>

\* Worker::sync_population: the agents listed under spawn:<uuid> join `local`
\* and the list is deleted, then the ids listed under kill:<uuid> leave
\* `local` and that list is deleted. (Nothing in compute.rs writes either
\* list; the reads are taken in one step.)
W_sync(w) ==
    /\ wpc[w] = "s_sync"
    /\ LET datas  == spawnKey[w]
           dead   == killKey[w]
           joined == IF Len(datas) > 0 THEN local[w] \cup Range(datas) ELSE local[w]
           kept   == IF Len(dead) > 0
                     THEN {a \in joined : a.id \notin Range(dead)}
                     ELSE joined
       IN  /\ local' = [local EXCEPT ![w] = kept]
           /\ spawnKey' = [spawnKey EXCEPT ![w] = <<>>]
           /\ killKey' = [killKey EXCEPT ![w] = <<>>]
    /\ wpc' = [wpc EXCEPT ![w] = "ack"]
    /\ UNCHANGED <<storeVars, ctlVars, mgrVars, cur, ids, batch, buf, fetched,
                   to_change, nextId, histVars>>
    /\ UNCHANGED <<worldVars, taken, repVars, handed, hooks, libVars>>

\* ------------------------------------------------------------- Next
ManagerStep ==
    \/ M_wait_workers
    \/ M_step_begin
    \/ \E cmd \in {"decide", "update", "sync"} : M_publish(cmd)
    \/ \E cmd \in {"decide", "update", "sync"} : M_set_phase(cmd)
    \/ \E cmd \in {"decide", "update"} : M_wait_finished(cmd)
    \/ \E cmd \in {"decide", "update"} : M_del_finished(cmd)
    \/ M_world_decide
    \/ Population_update_read
    \/ Population_kills
    \/ on_deaths
    \/ Population_spawns
    \/ on_spawns
    \/ M_step_end
    \/ M_terminate

WorkerStep(w) ==
    \/ W_register(w)
    \/ W_subscribe(w)
    \/ W_read_phase(w)
    \/ W_get_message(w)
    \/ W_terminate(w)
    \/ W_ack(w)
    \/ W_decide_spop(w)
    \/ W_decide_agents(w)
    \/ W_push(w)
    \/ W_update_spop(w)
    \/ W_update_get(w)
    \/ W_update_lrange(w)
    \/ W_update_apply(w)
    \/ W_update_set(w)
    \/ W_sync(w)

Next ==
    \/ \E k \in 1..MaxSpawn : Manager_spawn(k, MaxSpawn)
    \/ \E nw \in 1..MaxWorkers, ns \in 0..MaxSteps : Run(nw, ns)
    \/ ManagerStep
    \/ \E w \in WorkerIds : WorkerStep(w)

Spec == Init /\ [][Next]_vars

\* the same program under the smaller bounds
NextSmall ==
    \/ \E k \in 1..SmallSpawn : Manager_spawn(k, SmallSpawn)
    \/ \E nw \in 1..SmallWorkers, ns \in 0..SmallSteps : Run(nw, ns)
    \/ ManagerStep
    \/ \E w \in WorkerIds : WorkerStep(w)

SpecSmall == Init /\ [][NextSmall]_vars

SpecSims == InitSims /\ [][NextSmall]_vars

\* the smaller bounds, with reporters registered before run
NextReport ==
    \/ \E i \in 1..MaxInterval, r \in ReporterNames : register_reporter(i, r)
    \/ NextSmall

SpecReport == Init /\ [][NextReport]_vars

\* one worker and one agent, with unrecognized commands arriving on the channel
NextUnknown ==
    \/ \E cmd \in UnknownCmds : PublishUnknown(cmd)
    \/ Manager_spawn(1, 1)
    \/ \E ns \in 0..UnknownSteps : Run(1, ns)
    \/ ManagerStep
    \/ \E w \in WorkerIds : WorkerStep(w)

\* the ids of the agents a client assigns to workers
SyncIds == {1, 2}

\* a client of the store assigns an agent to worker w (RPUSH spawn:<uuid>) or
\* takes one from it (RPUSH kill:<uuid>); compute.rs itself writes neither
\* list. The worker exists, and the client leaves the lists alone while the
\* worker is between the commands of its sync_population.
Client_push(w, list, id) ==
    /\ wpc[w] \notin {"new", "exited", "panicked"}
    /\ Len(spawnKey[w]) + Len(killKey[w]) < MaxPush
    /\ IF list = "spawn"
       THEN /\ spawnKey' = [spawnKey EXCEPT ![w] = Append(@, [id |-> id, state |-> 0])]
            /\ UNCHANGED killKey
       ELSE /\ killKey' = [killKey EXCEPT ![w] = Append(@, id)]
            /\ UNCHANGED spawnKey
    /\ UNCHANGED <<storeVars, ctlVars, mgrVars, wrkVars, nextId, histVars>>
    /\ UNCHANGED <<worldVars, local, taken, repVars, handed, hooks, libVars>>

\* one worker and one agent, with a client writing the worker's lists
NextSync ==
    \/ \E list \in {"spawn", "kill"}, id \in SyncIds : Client_push(1, list, id)
    \/ Manager_spawn(1, 1)
    \/ \E ns \in 0..SoloSteps : Run(1, ns)
    \/ ManagerStep
    \/ \E w \in WorkerIds : WorkerStep(w)

\* ... for a simulation that queues one update per agent and one that kills
InitUnknown == Init /\ sim \in {"counter", "killer"}

SpecUnknown == InitUnknown /\ [][NextUnknown]_vars

SpecSync == InitUnknown /\ [][NextSync]_vars

\* the states Manager::spawn is given
SpawnStates == {0, 7}

\* one worker, the agents spawned with several states in a call
NextSpawn ==
    \/ \E k \in 1..MaxBatch : \E states \in [1..k -> SpawnStates] :
          Manager_spawns(states, MaxBatch)
    \/ \E ns \in 0..SoloSteps : Run(1, ns)
    \/ ManagerStep
    \/ \E w \in WorkerIds : WorkerStep(w)

SpecSpawn == InitUnknown /\ [][NextSpawn]_vars

\* a reset_indices that deletes nothing
reset_indices_None(ix) == ix

\* Population::reset_indices : KEYS idx:*, then DEL of the keys found
reset_indices(ix) == IF Cardinality(DOMAIN ix) > 0 THEN DelKeys(ix, DOMAIN ix) ELSE ix

\* Manager::new(addr, conn, simulation, world): Population::reset (DEL of the
\* four population sets, reset_indices), set_world, then Manager::reset
\* (SET current_phase idle, DEL workers, DEL finished)
Manager_new ==
    /\ mpc = "unconstructed"
    /\ population' = {} /\ to_decide' = {} /\ to_update' = {} /\ pop_updates' = {}
    /\ idx' = reset_indices(idx)
    /\ world' = ctor.world
    /\ current_phase' = [cmd |-> "idle", n |-> 0]
    /\ workers' = {} /\ finished' = {}
    /\ mpc' = "new"
    /\ ctor' = [ctor EXCEPT !.found = Snapshot]
    /\ UNCHANGED <<agentKey, updKey, chan, subscribed, sim, steps, n_steps, n_workers,
                   mTodo, wrkVars, nextId, histVars, updWorld, syncVars, taken, repVars,
                   handed, hooks, idxOp, spawned, disp, hashVars, routerVars>>

\* what an earlier run or another client may have left in the store
DirtyIds == 1..MaxDirty
DirtyIndices ==
    UNION {[names -> SUBSET DirtyIds \ {{}}] : names \in SUBSET IndexNames}

\* the store before Manager::new is called, and the world it will be given
InitDirty ==
    /\ population \in SUBSET DirtyIds /\ to_decide \in SUBSET DirtyIds
    /\ to_update \in SUBSET DirtyIds
    /\ pop_updates \in SUBSET {Spawn(i, 0) : i \in DirtyIds}
    /\ agentKey = EmptyFn /\ updKey = EmptyFn
    /\ current_phase \in [cmd : {"idle", "decide", "sync"}, n : {0}]
    /\ workers \in SUBSET DirtyIds /\ finished \in SUBSET DirtyIds
    /\ chan = [w \in WorkerIds |-> <<>>]
    /\ subscribed = {}
    /\ sim = "counter"
    /\ mpc = "unconstructed" /\ steps = 0 /\ n_steps = 0 /\ n_workers = 0
    /\ mTodo = [kill |-> {}, spawn |-> {}]
    /\ wpc = [w \in WorkerIds |-> "new"]
    /\ cur = [w \in WorkerIds |-> NoCmd]
    /\ ids = [w \in WorkerIds |-> {}]
    /\ batch = [w \in WorkerIds |-> {}]
    /\ buf = [w \in WorkerIds |-> NewUpdates]
    /\ fetched = [w \in WorkerIds |-> Nil]
    /\ to_change = [w \in WorkerIds |-> {}]
    /\ nextId = 1
    /\ published = <<>>
    /\ lateJoin = FALSE
    /\ calls = {} /\ dupCalls = {}
    /\ startState = EmptyFn
    /\ lastPopUpdate = [read |-> {}, killed |-> {}]
    /\ world \in 0..MaxDirty /\ updWorld = <<>>
    /\ spawnKey = [w \in WorkerIds |-> <<>>]
    /\ killKey = [w \in WorkerIds |-> <<>>]
    /\ local = [w \in WorkerIds |-> {}]
    /\ reporters = EmptyFn /\ registered = {} /\ reported = EmptyFn
    /\ handed = <<>>
    /\ hooks = <<>>
    /\ taken = [w \in WorkerIds |-> NotTaken]
    /\ idx \in DirtyIndices
    /\ idxOp = NoIdxOp
    /\ ctor \in [world : 0..MaxDirty, found : {Nil}]
    /\ spawned = <<>>
    /\ HashIdle /\ RouterIdle /\ DispIdle

NextNew == Manager_new

SpecNew == InitDirty /\ [][NextNew]_vars

\* the calls user code makes on the indices
IndexFrame ==
    UNCHANGED <<storeVars, ctlVars, mgrVars, wrkVars, nextId, histVars,
                worldVars, syncVars, taken, repVars, handed, hooks, ctor, spawned, disp,
                hashVars, routerVars>>

Population_index(name, id) ==
    /\ idx' = index(idx, name, id)
    /\ idxOp' = [op |-> "index", index |-> name, ids |-> {id}, before |-> idx]
    /\ IndexFrame

Population_indexes(name, xs) ==
    /\ idx' = indexes(idx, name, xs)
    /\ idxOp' = [op |-> "indexes", index |-> name, ids |-> xs, before |-> idx]
    /\ IndexFrame

Population_unindex(name, id) ==
    /\ idx' = unindex(idx, name, id)
    /\ idxOp' = [op |-> "unindex", index |-> name, ids |-> {id}, before |-> idx]
    /\ IndexFrame

Population_unindexes(name, xs) ==
    /\ idx' = unindexes(idx, name, xs)
    /\ idxOp' = [op |-> "unindexes", index |-> name, ids |-> xs, before |-> idx]
    /\ IndexFrame

NextIndex ==
    \/ \E name \in IndexNames, id \in IndexIds : Population_index(name, id)
    \/ \E name \in IndexNames, xs \in SUBSET IndexIds : Population_indexes(name, xs)
    \/ \E name \in IndexNames, id \in IndexIds : Population_unindex(name, id)
    \/ \E name \in IndexNames, xs \in SUBSET IndexIds : Population_unindexes(name, xs)

SpecIndex == Init /\ [][NextIndex]_vars

\* the calls made on routers
RouterFrame ==
    UNCHANGED <<storeVars, ctlVars, mgrVars, wrkVars, nextId, histVars,
                worldVars, syncVars, taken, repVars, handed, hooks, idx, idxOp, ctor,
                spawned, disp, hashVars, rActors>>

\* Router::serve: the thread it starts has bound its listener
Router_serve(a) ==
    /\ a \notin listening
    /\ listening' = listening \cup {a}
    /\ UNCHANGED <<inbox, rcall>>
    /\ RouterFrame

\* a call and its return; the caller then takes the value (Returned)
Called(op, r, m, sender, recipient, out) ==
    /\ rcall.op = "none"
    /\ out.inbox # inbox => Delivered(inbox) < MaxTell
    /\ inbox' = out.inbox
    /\ rcall' = [op |-> op, at |-> r, message |-> m, sender |-> sender,
                 recipient |-> recipient, ret |-> out.ret, before |-> inbox,
                 up |-> listening, handled |-> out.handled]
    /\ UNCHANGED listening
    /\ RouterFrame

Router_tell(r, m, sender, recipient, peer) ==
    Called("tell", r, m, sender, recipient, tell(inbox, r, m, sender, recipient, peer))

Router_ask(r, m, sender, recipient, peer) ==
    Called("ask", r, m, sender, recipient, ask(inbox, r, m, sender, recipient, peer))

\* the caller has the returned value; the next call can be made
Returned ==
    /\ rcall.op # "none"
    /\ rcall' = NoCall
    /\ UNCHANGED <<inbox, listening>>
    /\ RouterFrame

\* two routers as tests/router.rs builds them, not yet serving
InitRouter ==
    /\ Constructed /\ sim = "counter" /\ HashIdle /\ DispIdle
    /\ rActors = [a \in RouterAddrs |-> ActorIds]
    /\ inbox = [k \in RouterAddrs \X ActorIds |-> <<>>]
    /\ listening = {}
    /\ rcall = NoCall

NextRouter ==
    \/ \E a \in RouterAddrs : Router_serve(a)
    \/ \E r \in RouterAddrs, m \in Messages, sender \in Paths, recipient \in Paths,
          peer \in ClientAddrs : Router_tell(r, m, sender, recipient, peer)
    \/ \E r \in RouterAddrs, m \in Messages, sender \in Paths, recipient \in Paths,
          peer \in ClientAddrs : Router_ask(r, m, sender, recipient, peer)
    \/ Returned

SpecRouter == InitRouter /\ [][NextRouter]_vars

\* a call of WHasher::new(n).hash(id), the id hashing to h
Call_WHasher_hash ==
    /\ hashOut = NoIndex
    /\ hashOut' = WHasher_hash(hashIn.n, hashIn.h)
    /\ UNCHANGED <<storeVars, ctlVars, mgrVars, wrkVars, nextId, histVars,
                   worldVars, syncVars, taken, repVars, handed, hooks, idx, idxOp, ctor,
                   spawned, disp, hashIn, routerVars>>

InitHash ==
    /\ Constructed /\ sim \in SimKinds
    /\ hashIn \in [n : 1..MaxN, h : HashInputs]
    /\ hashOut = NoIndex
    /\ RouterIdle /\ DispIdle

NextHash == Call_WHasher_hash

SpecHash == InitHash /\ [][NextHash]_vars

\* -------------------------------------------------------- dispatcher
\* One actor; the messages are numbered in the order in which they are sent.
\* disp.inbox is the actor's inbox, disp.jobs the closures handed to the pool and not yet started, disp.running[t] the
\* messages pool thread t has still to handle, disp.handled the calls of
\* handle_msg made so far, in order.
DispFrame ==
    UNCHANGED <<storeVars, ctlVars, mgrVars, wrkVars, nextId, histVars,
                worldVars, syncVars, taken, repVars, handed, hooks, idx, idxOp, ctor,
                spawned, hashVars, routerVars>>

\* a message is pushed on the actor's inbox (Router::send_msg to a local actor)
Inbox_push ==
    /\ disp.sent < MaxMsgs
    /\ disp' = [disp EXCEPT !.inbox = Append(@, disp.sent + 1), !.sent = @ + 1]
    /\ DispFrame

\* one iteration of the dispatcher's loop with something queued. The router
\* made at line 20 is the thread's own and is never served, so the drain of
\* lines 35-50 finds nothing; if the actor's inbox is not empty its first
\* min(n_queued, THROUGHPUT) messages are drained into a chunk and a closure
\* that handles the chunk is handed to the pool (lines 53-70)
Dispatcher_loop ==
    /\ Len(disp.inbox) > 0
    /\ LET queued     == disp.inbox
           n_messages == IF Len(queued) < DispatcherThroughput
                         THEN Len(queued) ELSE DispatcherThroughput
       IN  disp' = [disp EXCEPT
                      !.inbox = SubSeq(queued, n_messages + 1, Len(queued)),
                      !.jobs = Append(@, SubSeq(queued, 1, n_messages))]
    /\ DispFrame

\* an idle thread of the pool takes the closure queued first
Pool_take(t) ==
    /\ t \in DOMAIN disp.running
    /\ disp.running[t] = <<>>
    /\ disp.jobs # <<>>
    /\ disp' = [disp EXCEPT !.running[t] = Head(disp.jobs), !.jobs = Tail(@)]
    /\ DispFrame

\* the closure's loop (lines 64-67): actor.write(), handle_msg(msg)
Pool_handle(t) ==
    /\ t \in DOMAIN disp.running
    /\ disp.running[t] # <<>>
    /\ disp' = [disp EXCEPT !.running[t] = Tail(@),
                            !.handled = Append(@, Head(disp.running[t]))]
    /\ DispFrame

\* dispatcher(actors, n_threads) has been called
InitDisp ==
    /\ Constructed /\ sim = "counter" /\ HashIdle /\ RouterIdle
    /\ disp \in {[NoDisp EXCEPT !.n_threads = n, !.running = [t \in 1..n |-> <<>>]] :
                    n \in 1..MaxThreads}

NextDisp ==
    \/ Inbox_push
    \/ Dispatcher_loop
    \/ \E t \in 1..MaxThreads : Pool_take(t)
    \/ \E t \in 1..MaxThreads : Pool_handle(t)

SpecDisp == InitDisp /\ [][NextDisp]_vars

\* ------------------------------------------------------- vocabulary
Phases == {"decide", "update", "sync"}

\* worker w is inside process_cmd for a decide, update or sync command
Busy(w) == cur[w].cmd \in Phases

\* the publications worker w has received or is processing and has not acked
Outstanding(w) ==
    {chan[w][i].n : i \in DOMAIN chan[w]} \cup (IF Busy(w) THEN {cur[w].n} ELSE {})

\* run() has returned: the manager thread and every worker thread have ended
RunReturned == mpc = "done" /\ \A w \in 1..n_workers : wpc[w] = "exited"

\* Population::count
count == Cardinality(population)

\* the positions of the manager inside Population::update
UpdatingPopulation ==
    {"pop_read", "pop_kills", "hook_deaths", "pop_spawns", "hook_spawns"}

\* the command published as the i-th one of a run whose steps are
\* (decide, update, sync), closed by terminate
CodeOrder(i) ==
    IF i = 3 * n_steps + 1 THEN "terminate"
    ELSE <<"decide", "update", "sync">>[((i - 1) % 3) + 1]

\* the same for steps that are (sync, decide, update)
SyncFirstOrder(i) ==
    IF i = 3 * n_steps + 1 THEN "terminate"
    ELSE <<"sync", "decide", "update">>[((i - 1) % 3) + 1]

\* -------------------------------------------------------------- claims

\* C1: no worker processes a command while another worker has an earlier
\* command unacked, and whatever a worker has not acked yet is the command
\* published last: each command is published only after every worker acked
\* the one before it. (Stated for runs in which every worker was in its
\* message loop before the first command was published.)
C1_PhaseBarrier ==
    ~lateJoin =>
        /\ \A w, v \in WorkerIds :
              Busy(w) => \A j \in Outstanding(v) : j >= cur[w].n
        /\ \A v \in WorkerIds : \A j \in Outstanding(v) : j >= Len(published)

\* C2: when the manager ends a step of the counter simulation, every agent
\* that was live when the step began holds its state of then plus the one
\* Add(10) its decide queued in the step.
C2_StepMonotonicity ==
    (sim = "counter" /\ ~lateJoin /\ mpc = "loop" /\ steps >= 1) =>
        \A a \in DOMAIN startState :
            (a \in population /\ Has(agentKey, a)) => agentKey[a] = startState[a] + 10

\* C3: under one decide command and under one update command, Simulation's
\* decide and update are called at most once per agent id, over all workers.
C3_OncePerStep == dupCalls = {}

\* C4: once the manager has passed the update barrier of a step, every
\* update queued in the step has been consumed: no updates:<id> list has an
\* entry and no id is left in to_update.
C4_UpdatesConsumed ==
    (~lateJoin /\ mpc = "del_update") => (DOMAIN updKey = {} /\ to_update = {})

\* C5: when Population::update has returned, every agent it killed is out of
\* population and has no state key.
C5_KilledAbsent ==
    mpc = "pub_sync" =>
        \A id \in lastPopUpdate.killed : id \notin population /\ ~Has(agentKey, id)

\* C6: when Population::update has returned, the pending-mutation set holds
\* none of the mutations that call read.
C6_Drained == mpc = "pub_sync" => pop_updates \cap lastPopUpdate.read = {}

\* C7: while the manager applies the population mutations of a step, no
\* worker is processing that step's decide or update command.
C7_MutationsAfterBarrier ==
    (~lateJoin /\ mpc \in {"pop_kills", "hook_deaths", "pop_spawns", "hook_spawns"}) =>
        \A w \in WorkerIds :
            ~(cur[w].cmd \in {"decide", "update"} /\ cur[w].n > 3 * steps)

\* C8: with every live agent spawning one child per step, a step that begins
\* with live agents ends with twice as many.
C8_Doubling ==
    (sim = "spawner" /\ ~lateJoin /\ mpc = "loop" /\ steps >= 1
        /\ DOMAIN startState # {}) =>
        count = 2 * Cardinality(DOMAIN startState)

\* C9: once run() is called it returns or can still take a step: it never
\* comes to rest with the manager or a worker not finished.
C9_RunReturns == mpc # "new" => (RunReturned \/ ENABLED Next)

C11_WorldUpdated ==
    (sim = "pair" /\ mpc = "loop") =>
        (updWorld = <<>> /\ world = SimWorldUpdate(sim, 0, [i \in 1..steps |-> 1]))

\* C12: the vector handed to Simulation::update holds an agent's updates in
\* the order of the Updates::queue calls: for the pair simulation, whose
\* decide queues Add(1) and then Add(2), its first element is Add(1).
C12_QueueOrder == (sim = "pair" /\ handed # <<>>) => handed[1] = 1

\* C13: the stored state of a live agent changes only in the step in which
\* a worker writes the states its update phase computed (set_agents at the
\* end of Worker::update); no other step of the manager or of a worker
\* gives a live agent another state.
C13_StateFrame ==
    [][\A a \in population \cap DOMAIN agentKey :
          (a \in DOMAIN agentKey' /\ agentKey'[a] # agentKey[a]) =>
              \E w \in WorkerIds :
                  /\ wpc[w] = "u_set" /\ wpc'[w] = "ack"
                  /\ \E p \in to_change[w] : p[1] = a /\ p[2] = agentKey'[a]]_vars

\* C14: when a step's sync is over, every live agent is in the `local`
\* collection of exactly one worker.
C14_PartitionAfterSync ==
    (mpc = "loop" /\ steps >= 1) =>
        \A a \in population :
            Cardinality({w \in WorkerIds : \E x \in local[w] : x.id = a}) = 1

\* C15: no caller of Population::get_agent is aborted: a worker that asks
\* for an id that is not in population gets None and goes on.
C15_GetAgentNoAbort == \A w \in WorkerIds : wpc[w] # "panicked"

\* C16: at the moment the manager is about to publish decide, update or
\* sync, `finished` is empty: the acks of the barrier it passed last have
\* been cleared. (Stated for runs in which every worker was in its message
\* loop before the first command was published.)
C16_FinishedCleared ==
    (~lateJoin /\ mpc \in {"pub_decide", "pub_update", "pub_sync"}) => finished = {}

\* worker w takes a step of Worker::decide (its SPOP, its get_agents and
\* Simulation::decide calls, or a command of its closing push)
DecideStep(w) ==
    /\ wpc[w] \in {"d_spop", "d_get", "d_push"}
    /\ <<wpc[w], ids[w], buf[w]>>' # <<wpc[w], ids[w], buf[w]>>

Invocations(r, s) == IF <<r, s>> \in DOMAIN reported THEN reported[<<r, s>>] ELSE 0

\* C18: when run is over, every registered reporter has been invoked exactly
\* once with each step index its interval divides, and with no other.
C18_ReportersInvoked ==
    mpc = "done" =>
        \A p \in registered : \A s \in 0..(n_steps - 1) :
            Invocations(p[1], s) = (IF s % p[2] = 0 THEN 1 ELSE 0)

\* how many times the manager has published cmd
Times(cmd) == Cardinality({i \in DOMAIN published : published[i] = cmd})

\* C19: Manager::run publishes terminate once, as its last command and only
\* when `steps` has reached n_steps (it is counted up after a step's last
\* barrier); by then decide and update have been published n_steps times
\* each, and with n_steps = 0 terminate is the only command.
C19_RunSteps ==
    /\ Times("terminate") = (IF mpc = "done" THEN 1 ELSE 0)
    /\ Times("decide") <= n_steps /\ Times("update") <= Times("decide")
    /\ mpc = "done" =>
          /\ steps = n_steps
          /\ Times("decide") = n_steps /\ Times("update") = n_steps
          /\ published[Len(published)] = "terminate"
          /\ n_steps = 0 => published = <<"terminate">>

\* C19 witness: a run of two steps is over
C19_Witness ==
    mpc = "done" /\ n_steps = 2 /\ Times("decide") = 2 /\ Times("update") = 2

\* C20: the step in which a worker processes terminate takes its uuid out of
\* `workers` and ends its thread; a worker that has exited is not in
\* `workers`, and no later step changes its position, its command or what
\* it holds; when all the workers of the run have exited `workers` is empty.
C20_TerminateExits ==
    /\ [](\A w \in WorkerIds : wpc[w] = "exited" => w \notin workers)
    /\ []((n_workers >= 1 /\ \A w \in 1..n_workers : wpc[w] = "exited") => workers = {})
    /\ [][\A w \in WorkerIds :
            /\ (wpc[w] = "t_srem" /\ wpc'[w] # "t_srem") =>
                  (wpc'[w] = "exited" /\ w \notin workers')
            /\ wpc[w] = "exited" =>
                  /\ wpc'[w] = "exited" /\ cur'[w] = NoCmd
                  /\ UNCHANGED <<ids[w], batch[w], buf[w], fetched[w],
                                 to_change[w], local[w]>>]_vars

\* C20 witness: a run of at least one step is over, its workers have
\* processed terminate and exited
C20_Witness ==
    /\ n_workers >= 1 /\ n_steps >= 1 /\ mpc = "done"
    /\ \A w \in 1..n_workers : wpc[w] = "exited"
    /\ workers = {}

\* C21: a worker that takes an unrecognized command off the channel changes
\* nothing (the store, `workers`, `finished`, its local agents) and is back
\* at its message loop, where the next message can be taken
C21_UnknownIgnored ==
    /\ [][\A w \in WorkerIds :
            (/\ wpc[w] = "listen" /\ chan[w] # <<>>
             /\ Head(chan[w]).cmd \in UnknownCmds
             /\ chan'[w] = Tail(chan[w]))
            => /\ storeVars' = storeVars /\ worldVars' = worldVars
               /\ syncVars' = syncVars /\ idx' = idx
               /\ workers' = workers /\ finished' = finished
               /\ wpc'[w] = "listen"]_vars
    /\ [](\A w \in WorkerIds :
            (wpc[w] = "listen" /\ cur[w].cmd \in UnknownCmds /\ chan[w] # <<>>)
            => ENABLED W_get_message(w))

\* a worker has processed an unrecognized command and is listening again
C21_Witness ==
    \E w \in WorkerIds :
        wpc[w] = "listen" /\ cur[w].cmd \in UnknownCmds /\ cur[w].via = "channel"

RECURSIVE Val(_)
\* the integer a short sequence of bits stands for
Val(b) == IF b = <<>> THEN 0 ELSE 2 * Val(SubSeq(b, 1, Len(b) - 1)) + b[Len(b)]

\* h cut into digits of LimbBits bits, most significant first
Limbs(h) ==
    [k \in 1..(Len(h) \div LimbBits) |->
        Val(SubSeq(h, LimbBits * (k - 1) + 1, LimbBits * k))]

RECURSIVE CarryL(_, _, _)
CarryL(d, n, c) ==
    IF d = <<>> THEN c
    ELSE CarryL(SubSeq(d, 1, Len(d) - 1), n, (d[Len(d)] * n + c) \div (2 ^ LimbBits))

\* floor((h * n + c) / 2^Len(h)), in exact integer arithmetic
Carry(h, n, c) == CarryL(Limbs(h), n, c)

\* j/n <= h/u64::MAX < (j+1)/n over the reals, u64::MAX being 2^HashBits - 1:
\* j * 2^HashBits <= h*n + j  and  h*n + (j + 1) < (j + 1) * 2^HashBits
InBucket(j, n, h) == Carry(h, n, j) >= j /\ Carry(h, n, j + 1) < j + 1

\* C22: the index returned is in [0, N); it is j exactly when
\* j/N <= h/u64::MAX < (j+1)/N, and N-1 when h = u64::MAX
C22_HashBuckets ==
    hashOut # NoIndex =>
        /\ hashOut \in 0..(hashIn.n - 1)
        /\ IF hashIn.h = Ones(HashBits)
           THEN hashOut = hashIn.n - 1
           ELSE \A j \in 0..(hashIn.n - 1) :
                    hashOut = j <=> InBucket(j, hashIn.n, hashIn.h)

\* C23: index of an id the index already holds leaves its membership and
\* count_index unchanged, unindex of an id it does not hold leaves it
\* unchanged; indexes and unindexes do the same for each such id of theirs
C23_IndexIdempotent ==
    LET name   == idxOp.index
        before == Members(idxOp.before, name)
        after  == Members(idx, name)
    IN  /\ (idxOp.op \in {"index", "indexes"} /\ idxOp.ids \subseteq before)
            => /\ after = before
               /\ count_index(idx, name) = count_index(idxOp.before, name)
        /\ (idxOp.op \in {"unindex", "unindexes"} /\ idxOp.ids \cap before = {})
            => idx = idxOp.before
        /\ idxOp.op = "indexes"
            => /\ after = before \cup idxOp.ids
               /\ count_index(idx, name)
                    = count_index(idxOp.before, name) + Cardinality(idxOp.ids \ before)
        /\ idxOp.op = "unindexes" => after = before \ idxOp.ids
        /\ idxOp.op # "none"
            => \A other \in IndexNames \ {name} :
                   Members(idx, other) = Members(idxOp.before, other)

\* an id has been indexed a second time
C23_Witness ==
    /\ idxOp.op = "index"
    /\ idxOp.ids \subseteq Members(idxOp.before, idxOp.index)
    /\ count_index(idx, idxOp.index) > 1

\* C24: when Manager::new has returned, `workers` and `finished` are empty,
\* current_phase is "idle", the population, to-decide, to-update and
\* pending-mutation sets and every index are empty, and the world slot holds
\* the world that was supplied
C24_FreshAfterNew ==
    mpc = "new" =>
        /\ workers = {} /\ finished = {}
        /\ current_phase.cmd = "idle"
        /\ population = {} /\ to_decide = {} /\ to_update = {} /\ pop_updates = {}
        /\ \A name \in IndexNames : count_index(idx, name) = 0
        /\ DOMAIN idx = {}
        /\ world = ctor.world

\* Manager::new has returned, having found every one of those keys in use
C24_Witness ==
    /\ mpc = "new"
    /\ ctor.found.workers # {} /\ ctor.found.finished # {}
    /\ ctor.found.current_phase.cmd # "idle"
    /\ ctor.found.population # {} /\ ctor.found.to_decide # {}
    /\ ctor.found.to_update # {} /\ ctor.found.pop_updates # {}
    /\ DOMAIN ctor.found.idx = IndexNames
    /\ ctor.found.world # ctor.world

\* the actor a call is addressed to, and whether a router holds it
Target(c) ==
    IF c.recipient.kind = "Local" THEN <<c.at, c.recipient.id>>
    ELSE <<c.recipient.addr, c.recipient.id>>

Registered(c) ==
    IF c.recipient.kind = "Local" THEN c.recipient.id \in rActors[c.at]
    ELSE c.recipient.addr \in c.up /\ c.recipient.id \in rActors[c.recipient.addr]

\* C25: a tell to a registered actor, local or on a serving remote router,
\* returns Ok, appends the message once to that actor's inbox, calls no
\* handle_msg and changes no other inbox
C25_TellDelivers ==
    (rcall.op = "tell" /\ Registered(rcall)) =>
        /\ rcall.ret = RM_Ok
        /\ inbox[Target(rcall)] = Append(rcall.before[Target(rcall)], rcall.message)
        /\ \A k \in DOMAIN inbox \ {Target(rcall)} : inbox[k] = rcall.before[k]
        /\ rcall.handled = <<>>

\* a message has been told to an actor of the other router, which is serving
C25_Witness ==
    /\ rcall.op = "tell" /\ Registered(rcall)
    /\ rcall.recipient.kind = "Remote" /\ rcall.recipient.addr # rcall.at

\* C26: a tell to Local{id} when the router holds no actor with that id
\* returns Err("No actor with id") and changes no inbox
C26_TellNoActor ==
    (/\ rcall.op = "tell" /\ rcall.recipient.kind = "Local"
     /\ rcall.recipient.id \notin rActors[rcall.at])
    => /\ rcall.ret = RM_Err(<<"No actor with id">>)
       /\ inbox = rcall.before

\* a tell has been made to a local id no actor has, the inboxes holding a message
C26_Witness ==
    /\ rcall.op = "tell" /\ rcall.recipient.kind = "Local"
    /\ rcall.recipient.id \notin rActors[rcall.at]
    /\ Delivered(inbox) > 0

\* C27: an ask to Local{id} of a registered actor returns a Response whose
\* sender is Local{id}, whose recipient is the id of the asker's path and
\* whose message is the actor's handle_msg of the message; no inbox changes
C27_AskLocal ==
    (/\ rcall.op = "ask" /\ rcall.recipient.kind = "Local"
     /\ rcall.recipient.id \in rActors[rcall.at])
    => /\ rcall.ret = RM_Response(rcall.recipient, PathId(rcall.sender),
                                  handle_msg(rcall.message))
       /\ inbox = rcall.before

\* a local actor has been asked by a sender of another id
C27_Witness ==
    /\ rcall.op = "ask" /\ rcall.recipient.kind = "Local"
    /\ rcall.recipient.id \in rActors[rcall.at]
    /\ rcall.sender.id # rcall.recipient.id
    /\ rcall.ret.kind = "Response"

\* C28: an ask to Remote{addr, id}, the router listening on addr holding the
\* actor, returns a Response whose sender is that path Remote{addr, id},
\* whose recipient is the asker's id and whose message is the remote actor's
\* handle_msg of the message
C28_AskRemote ==
    (/\ rcall.op = "ask" /\ rcall.recipient.kind = "Remote"
     /\ Registered(rcall))
    => rcall.ret = RM_Response(rcall.recipient, PathId(rcall.sender),
                               handle_msg(rcall.message))

\* the invocations of a hook that were handed the agent id
Received(name, id) == {i \in DOMAIN hooks : hooks[i].hook = name /\ id \in hooks[i].ids}

\* C29: over a run, on_spawns is handed each spawned agent in exactly one
\* invocation and on_deaths each killed agent in exactly one invocation,
\* the invocations being those the manager makes in Population::update
C29_HooksOnce ==
    /\ \A i \in DOMAIN hooks : \A id \in hooks[i].ids :
           Cardinality(Received(hooks[i].hook, id)) = 1
    /\ mpc \in {"pub_sync", "wait_sync", "loop", "done"} =>
           /\ \A id \in population : Cardinality(Received("on_spawns", id)) = 1
           /\ \A id \in lastPopUpdate.killed : Cardinality(Received("on_deaths", id)) = 1

C31_IndexMatchesPopulation ==
    (sim \in Indexing /\ mpc \notin UpdatingPopulation) =>
        Members(idx, People) = population

\* C31 witness: an update that killed and spawned has returned and the index
\* holds the live ids
C31_Witness ==
    /\ sim \in Indexing /\ mpc = "pub_sync"
    /\ \E i \in DOMAIN hooks : hooks[i].hook = "on_deaths"
    /\ \E i \in DOMAIN hooks : hooks[i].hook = "on_spawns"
    /\ population # {} /\ Members(idx, People) = population

\* worker w is inside process_cmd for an update command
Updating(w) == cur[w].cmd = "update"

\* C32: a worker that is about to add itself to `finished` for an update
\* command holds no state it has still to write; every state
\* Simulation.update changed is put in to_change and one that it left as it
\* was is not; to_change is emptied only by the write of all its states; and
\* no other step of the worker's update writes an agent state, so that an
\* agent with an unchanged result or with no queued updates is not written.
C32_WriteBeforeAck ==
    /\ [](\A w \in WorkerIds :
            (Updating(w) /\ wpc[w] = "ack") =>
                (to_change[w] = {} /\ batch[w] = {} /\ fetched[w] = Nil))
    /\ [][\A w \in WorkerIds : (Updating(w) /\ wpc'[w] # wpc[w]) =>
            /\ wpc[w] = "u_del" =>
                  LET a  == fetched[w].agent
                      st == SimUpdate(sim, a.state, fetched[w].data)
                  IN  to_change'[w] = IF st # a.state
                                      THEN to_change[w] \cup {<<a.id, st>>}
                                      ELSE to_change[w]
            /\ (wpc[w] # "u_del" /\ to_change'[w] # to_change[w]) =>
                  /\ wpc[w] = "u_set" /\ to_change'[w] = {}
                  /\ \A p \in to_change[w] :
                        Has(agentKey', p[1]) /\ agentKey'[p[1]] = p[2]
            /\ \A a \in DOMAIN agentKey \cup DOMAIN agentKey' :
                  (~Has(agentKey, a) \/ ~Has(agentKey', a) \/ agentKey'[a] # agentKey[a]) =>
                      (wpc[w] = "u_set" /\ \E p \in to_change[w] : p[1] = a)]_vars

\* C32 witness: a worker is about to ack an update in which it wrote the
\* state its Simulation.update changed
C32_Witness ==
    \E w \in WorkerIds :
        /\ sim = "counter" /\ Updating(w) /\ wpc[w] = "ack"
        /\ <<"update", 1, cur[w].n>> \in calls
        /\ Has(agentKey, 1) /\ agentKey[1] = 10

\* the case of an unchanged result: a worker is about to ack an update in
\* which Simulation.update returned the state the agent had
C32_Unchanged ==
    \E w \in WorkerIds :
        /\ sim = Still /\ Updating(w) /\ wpc[w] = "ack"
        /\ <<"update", 1, cur[w].n>> \in calls

\* worker w is inside process_cmd for a sync command
Syncing(w) == cur[w].cmd = "sync"

\* C33: the step in which a worker runs sync_population leaves in `local`
\* exactly the agents that were local or on its spawn list and whose id is
\* not on its kill list (an agent spawned and killed in the same sync is not
\* kept, every other one is), leaves both lists empty and does not touch
\* `finished`; the worker adds itself to `finished` in a later step, which
\* leaves `local` as it is.
C33_SyncPopulation ==
    [][\A w \in WorkerIds : (Syncing(w) /\ wpc'[w] # wpc[w]) =>
          /\ wpc[w] = "s_sync" =>
                /\ local'[w] = {a \in local[w] \cup Range(spawnKey[w]) :
                                   a.id \notin Range(killKey[w])}
                /\ spawnKey'[w] = <<>> /\ killKey'[w] = <<>>
                /\ finished' = finished
                /\ wpc'[w] = "ack"
          /\ wpc[w] # "s_sync" =>
                /\ wpc[w] = "ack" /\ finished' = finished \cup {w}
                /\ local'[w] = local[w]]_vars

\* C33 witness: a worker has run a sync that read both lists; it holds an
\* agent that joined in an earlier or in this sync and none of the killed
C33_Witness ==
    \E w \in WorkerIds :
        /\ Syncing(w) /\ wpc[w] = "ack"
        /\ local[w] = {[id |-> 2, state |-> 0]}
        /\ spawnKey[w] = <<>> /\ killKey[w] = <<>>

\* the manager has not yet applied the pending mutations for the first time
BeforeFirstUpdate ==
    steps = 0 /\ mpc \notin {"hook_spawns", "pub_sync", "set_sync", "wait_sync"}

\* C34: the ids Manager::spawn returned are pairwise distinct; a call only
\* adds, for each state given, the Spawn of the id returned for it to the
\* pending mutations, and leaves population and the state keys as they
\* are; nothing is live before the first Population::update, and when that
\* update has returned every returned id is in population with the state
\* given for it.
C34_SpawnQueues ==
    /\ [](\A i, j \in DOMAIN spawned : i # j => spawned[i][1] # spawned[j][1])
    /\ [](BeforeFirstUpdate => (population = {} /\ DOMAIN agentKey = {}))
    /\ []((steps = 0 /\ mpc = "pub_sync") =>
            \A i \in DOMAIN spawned :
                /\ spawned[i][1] \in population
                /\ Has(agentKey, spawned[i][1])
                /\ agentKey[spawned[i][1]] = spawned[i][2])
    /\ [][spawned' # spawned =>
            /\ Len(spawned') > Len(spawned)
            /\ SubSeq(spawned', 1, Len(spawned)) = spawned
            /\ pop_updates' = pop_updates \cup
                  {Spawn(spawned'[i][1], spawned'[i][2]) :
                      i \in (Len(spawned) + 1)..Len(spawned')}
            /\ UNCHANGED <<population, agentKey, to_decide, to_update, updKey>>]_vars

\* C34 witness: two agents spawned in one call with different states are
\* live, each with its state, when the first Population::update has returned
C34_Witness ==
    /\ steps = 0 /\ mpc = "pub_sync"
    /\ spawned = <<<<1, 7>>, <<2, 0>>>>
    /\ population = {1, 2} /\ agentKey[1] = 7 /\ agentKey[2] = 0

\* C35: the store never shows part of one push: while a worker is inside
\* Updates::push, no agent's update list has been extended by that push
\* with the push's SADD of the agent's id to to_update still to come.
C35_PushAtomic ==
    \A w \in WorkerIds :
        wpc[w] = "d_push" =>
            \A id \in buf[w].to_update : id \in DOMAIN buf[w].updates

\* C36: while the manager waits at the barrier of the command it published
\* last, every registered worker has acked, or has that command on its
\* channel or in process, or is still to read it from current_phase at
\* start-up: no registered worker has missed it.
C36_NoMissedCommand ==
    mpc \in {"wait_decide", "wait_update", "wait_sync"} =>
        \A w \in workers :
            \/ w \in finished
            \/ Len(published) \in Outstanding(w)
            \/ wpc[w] \in {"subscribe", "read_phase"}

\* C37: no worker begins to process the same publication twice: the
\* publication it executed through its initial read of current_phase is not
\* executed again when its message comes off the channel.
C37_AtMostOnce == \A w \in WorkerIds : ~taken[w].again

\* the publication number of the decide of the step the manager is in
StepDecide == 3 * steps + 1

\* C38, at the manager's barrier: when the manager has passed the decide
\* barrier of a step, to_decide is empty and every id that was in population
\* when the step began has been passed to Simulation.decide under the
\* step's decide command.
C38_AllDecided ==
    mpc = "del_decide" =>
        /\ to_decide = {}
        /\ \A id \in DOMAIN startState : <<"decide", id, StepDecide>> \in calls

\* C38, by the workers' own acks: the same, whenever the command every
\* registered worker acknowledged last is the decide of the step
C38_AllDecidedAcked ==
    (workers # {} /\ \A w \in workers : taken[w].acked = StepDecide) =>
        /\ to_decide = {}
        /\ \A id \in DOMAIN startState : <<"decide", id, StepDecide>> \in calls

\* C39: handle_msg is called with the messages of the actor in the order in
\* which they were placed in its inbox, none twice; and when the dispatcher
\* and the pool have nothing left to do every message sent has been handled.
C39_HandledInOrder ==
    /\ \A i, j \in DOMAIN disp.handled :
          i < j => disp.handled[i] < disp.handled[j]
    /\ (disp.inbox = <<>> /\ disp.jobs = <<>>
          /\ \A t \in DOMAIN disp.running : disp.running[t] = <<>>)
        => Len(disp.handled) = disp.sent

\* the part of C39 that does not depend on the order: no message is handled
\* twice, and at rest every message has been handled
C39_ExactlyOnce ==
    /\ \A i, j \in DOMAIN disp.handled :
          i # j => disp.handled[i] # disp.handled[j]
    /\ (disp.inbox = <<>> /\ disp.jobs = <<>>
          /\ \A t \in DOMAIN disp.running : disp.running[t] = <<>>)
        => Len(disp.handled) = disp.sent

\* the recipient of the call names no actor of the router it addresses
NoSuchActor(c) ==
    \/ c.recipient.kind = "Local" /\ c.recipient.id \notin rActors[c.at]
    \/ /\ c.recipient.kind = "Remote"
       /\ c.recipient.addr \in RouterAddrs
       /\ c.recipient.id \notin rActors[c.recipient.addr]

\* C40: an ask whose recipient names an actor id that is not registered, be
\* the path Local or Remote, returns an Err, never Ok and never a Response
C40_AskNoActor ==
    (rcall.op = "ask" /\ NoSuchActor(rcall)) => rcall.ret.kind = "Err"

\* the Local half of C40: the ask returns Err("No actor with id")
C40_AskNoActorLocal ==
    (rcall.op = "ask" /\ rcall.recipient.kind = "Local" /\ NoSuchActor(rcall))
    => rcall.ret = RM_Err(<<"No actor with id">>)

====
